---------------------------- MODULE Spec2Model ----------------------------
(***************************************************************************)
(* A model of the sample-loading subsystem of InternVL:                    *)
(*   - InterleavedDataset (interleaved_dataset.py): shard table, hot       *)
(*     shard, load_data, __getitem__ and __len__; parse_sample and the     *)
(*     assembly of a bundle by getitem;                                    *)
(*   - load_json, load_json_line and load_jsonl (interleaved_dataset.py);  *)
(*   - InferenceSampler._get_local_indices and the ranks running           *)
(*     evaluate_chat_model (evaluate_grounding.py);                        *)
(*   - LazySupervisedDataset (internvl_chat_pretrain.py): __getitem__,     *)
(*     find_closest_aspect_ratio and dynamic_preprocess.                   *)
(*                                                                         *)
(* Conventions.  A shard file 'data0417_shuffled_shard_<k>.jsonl' is named *)
(* by its number k.  A record is the pair <<k, n>>: line n of shard file   *)
(* k.  Python's None is the empty set for an optional number and the       *)
(* result kind "none" for a returned value.  Python lists are sequences,   *)
(* so the Python offset o is position o + 1.                               *)
(***************************************************************************)
EXTENDS Integers, Sequences, FiniteSets, TLC

(***************************************************************************)
(* Bounds.  The program's shard count (6144) and nominal shard capacity    *)
(* (34190) are scaled down; every formula below is stated in terms of      *)
(* these names, never of their values.                                     *)
(***************************************************************************)
NumShards == 3
NumSamplesEachShard == 3
MaxExtra == 1
MaxWorldSize == 4
MaxTotalSize == 6
MaxDim == 6
MaxImageSize == 3
MaxLines == 3

\* dynamic_preprocess(self, image, min_num=1, max_num=6)
DefaultMinNum == 1
DefaultMaxNum == 6

Seed == 42

\* self._length (line 123)
Length == NumSamplesEachShard * NumShards

\* The indices a caller may request: one pass over the corpus and, past its
\* end, one more shard's worth (indices that wrap around).
Indices == 0 .. (Length + NumSamplesEachShard - 1)

Shards == 0 .. (NumShards - 1)

VARIABLES
    \* ---- InterleavedDataset: configuration and environment
    dataset_resampled,    \* constructor argument (line 104)
    train_num_samples,    \* constructor argument; {} is None, {n} is n
    shard_files,          \* the corpus: shard number -> its records, in file order
    \* ---- InterleavedDataset: object state
    rng,                  \* state of self.random
    shard_order,          \* self.shard_order
    shard_id_range,       \* self.shard_id_range: shard -> <<start, end>>
    current_shard_name,   \* self.current_shard_name
    current_shard_data,   \* self.current_shard_data
    \* ---- the call in progress or last made
    pc,                   \* "idle" | "loop" | "returned" | "raised"
    index,                \* the loop variable of __getitem__
    item,                 \* what __getitem__ returned
    last,                 \* the last load_data call and its outcome
    \* ---- the run of load_data(0), load_data(1), ... since construction
    seq_next,             \* calls made so far in that run; -1 once another
                          \* call was made or a file could not be read
    seq_served,           \* what they returned
    seq_swaps             \* the indices at which the hot shard was replaced

VARIABLES
    \* ---- the worker processes of one distributed job
    world_size,           \* torch.distributed.get_world_size()
    total_size,           \* the size handed to InferenceSampler
    local_indices,        \* rank -> <<begin, end>> of its range, once computed
    owned,                \* rank -> the shard_order its dataset was built with
    lazy_built            \* rank -> the LazySupervisedDataset it built from
                          \* an annotation file of total_size lines

VARIABLES
    \* ---- one call of LazySupervisedDataset.dynamic_preprocess
    tile_pc,              \* "input" | "done"
    image_size,           \* self.image_size
    orig_width,
    orig_height,
    min_num,
    max_num,
    ratio_order,          \* the order in which the set target_ratios is iterated
    primary_ratio,        \* best_ratio when the search loop ends (line 258)
    best_ratio,           \* what find_closest_aspect_ratio returns
    use_thumbnail,        \* self.use_thumbnail
    processed_images,     \* the list dynamic_preprocess returns
    image_flags           \* the image_flags of the bundle of a text-only
                          \* record, one flag per tile

VARIABLES
    \* ---- LazySupervisedDataset.__getitem__
    raw_data,             \* self.raw_data: what each line of this rank holds
    lazy_pc,              \* "idle" | "loop" | "returned" | "raised"
    lazy_i,               \* the loop variable i
    lazy_ret              \* the line whose bundle was returned (from 0)

VARIABLES
    \* ---- one call of load_json or load_jsonl
    load_fn,              \* "load_json" | "load_jsonl"
    remote,               \* 's3://' in the path
    file_lines,           \* what is stored at the path, as readlines() splits it
    load_pc,              \* "fetch" | "read" | "lines" | "returned" | "raised"
    try_times,            \* the local try_times
    fetch_calls,          \* how many times _client.get has been called
    bytes,                \* the local bytes: "unbound" | "None" | "fetched"
    lines,                \* the local lines
    line_no,              \* position of the for loop in lines
    jsonl_data,           \* the local data of load_jsonl
    last_line,            \* the latest call of load_json_line and its outcome
    load_ret              \* what the call returned or raised

loadVars == <<load_fn, remote, file_lines, load_pc, try_times, fetch_calls,
              bytes, lines, line_no, jsonl_data, last_line, load_ret>>

VARIABLES
    \* ---- one call of InterleavedDataset.getitem on a loaded record
    sample,               \* the record, slot by slot
    max_num_images,       \* self.max_num_images
    num_image_token,      \* self.num_image_token
    model_max_length,     \* tokenizer.model_max_length
    tokenizer_bound,      \* the module-level name tokenizer is bound
    asm_pc,               \* "parse" | "images" | "text" | "tokenize" |
                          \* "labels" | "returned" | "raised"
    valid_image,          \* the local valid_image
    loaded_images,        \* the local loaded_images, by slot number
    text,                 \* the local text
    input_ids,            \* tokenized['input_ids'][0]
    labels,               \* labels[0]
    asm_err               \* the exception that ended the call

asmVars == <<sample, max_num_images, num_image_token, model_max_length,
             tokenizer_bound, asm_pc, valid_image, loaded_images, text,
             input_ids, labels, asm_err>>

VARIABLES
    \* ---- the ranks of one run of evaluate_chat_model
    ev_world,             \* torch.distributed.get_world_size()
    ev_sizes,             \* len(dataset) of each of args.datasets, in order
    ev_ds,                \* rank -> position (from 1) in args.datasets
    ev_pc,                \* rank -> "pass" | "barrier" | "gather" | "score" |
                          \*         "end_barrier" | "done"
    ev_pos,               \* rank -> how many of its local indices it has done
    outputs,              \* rank -> the local outputs
    gathered,             \* rank -> what it handed to all_gather_object
    merged_outputs,       \* rank -> the local merged_outputs
    summaries             \* what rank 0 has scored, dataset by dataset

evalVars == <<ev_world, ev_sizes, ev_ds, ev_pc, ev_pos, outputs, gathered,
              merged_outputs, summaries>>

VARIABLES
    \* ---- the objects behind load_data and its caller
    heap,                 \* the record objects, by identity (a position)
    shard_content,        \* the records of the hot shard as they were loaded
    held,                 \* the object getitem was handed; 0 when none
    held_index,           \* the offset in the hot shard it was asked for
    first_served,         \* offset -> the record first returned for it
    served_again,         \* the offset asked for had been served before
    serve_limit,          \* self.max_num_images
    serve_pc              \* "idle" | "assemble"

serveVars == <<heap, shard_content, held, held_index, first_served,
               served_again, serve_limit, serve_pc>>

VARIABLES
    \* ---- what assembly makes of the records of the corpus
    assembling            \* the records getitem builds a bundle from; on
                          \* every other record it raises

skipVars == <<assembling>>

extVars == <<loadVars, asmVars, evalVars, serveVars, skipVars>>

rankVars == <<world_size, total_size, local_indices, owned, lazy_built>>

tileVars == <<tile_pc, image_size, orig_width, orig_height, min_num, max_num,
              ratio_order, primary_ratio, best_ratio, use_thumbnail,
              processed_images, image_flags>>

lazyVars == <<raw_data, lazy_pc, lazy_i, lazy_ret>>

dsVars == <<dataset_resampled, train_num_samples, shard_files, rng, shard_order,
            shard_id_range, current_shard_name, current_shard_data, pc, index,
            item, last, seq_next, seq_served, seq_swaps>>

(***************************************************************************)
(* random.Random(seed) (line 125): the Python library's Mersenne Twister,  *)
(* which is not part of the repository.  What the dataset takes from it    *)
(* is the stream of 32-bit words genrand_uint32() that the generator       *)
(* seeded with seed yields; Genrand lists the high byte of each of the     *)
(* first words of that stream for the seed the constructor defaults to.    *)
(* The state of the generator is the number of words drawn so far.         *)
(***************************************************************************)
Genrand == <<
    163,  28,   6, 189,  70,  62,  57,  35, 188,  26, 173, 189,
    228, 139,  22, 151, 108,   8,   7,  23,  55,  59, 129, 154,
      6, 143,  50, 183, 166, 179, 139, 107,  56, 114, 150,  71,
    207, 222,   1, 194, 206,  40, 178, 108,  87,  71,  39,  55 >>

\* The high bits of a word that are kept in Genrand
GenrandBits == 8

\* The words of the stream that can be drawn
MaxDraws == Len(Genrand)

\* The state of a generator that has run out of listed words
Exhausted == MaxDraws + 1

\* random.Random(seed): no word drawn yet; the stream is listed for Seed
RngSeed(seed) == CHOOSE s \in {0} : seed = Seed

\* The state after one more word
RngNext(s) == s + 1

\* The number of bits of n: 0 for 0, k when 2^(k-1) <= n < 2^k
RECURSIVE BitLen(_)
BitLen(n) == IF n = 0 THEN 0 ELSE 1 + BitLen(n \div 2)

\* random.getrandbits(k) for k <= 32: the k high bits of the next word
GetRandBits(k, s) == Genrand[s + 1] \div (2 ^ (GenrandBits - k))

\* random._randbelow(n): k = n.bit_length(); r = getrandbits(k);
\* while r >= n: r = getrandbits(k).  The value and the state after it.
RECURSIVE RandBelow(_, _)
RandBelow(n, s) ==
    IF s >= MaxDraws THEN [value |-> 0, rng |-> Exhausted]
    ELSE LET r == GetRandBits(BitLen(n), s)
         IN IF r < n THEN [value |-> r, rng |-> RngNext(s)]
            ELSE RandBelow(n, RngNext(s))

Swap(x, p, q) == [x EXCEPT ![p] = x[q], ![q] = x[p]]

\* random.shuffle: for i in reversed(range(1, len(x))): j = randbelow(i + 1);
\* x[i], x[j] = x[j], x[i]
RECURSIVE ShuffleFrom(_, _, _)
ShuffleFrom(x, p, s) ==
    IF p < 2 THEN [list |-> x, rng |-> s]
    ELSE LET d == RandBelow(p, s)
         IN ShuffleFrom(Swap(x, p, 1 + d.value), p - 1, d.rng)

Shuffle(x, s) == ShuffleFrom(x, Len(x), s)

(***************************************************************************)
(* InterleavedDataset.__init__                                             *)
(***************************************************************************)
\* range(rank, len(list), world_num) as the sequence of its elements
RECURSIVE StrideFrom(_, _, _)
StrideFrom(idx, n, step) ==
    IF idx >= n THEN <<>> ELSE <<idx>> \o StrideFrom(idx + step, n, step)

partition_for_rank(all_rank_item_list, rank, world_num) ==
    LET this_rank_index == StrideFrom(rank, Len(all_rank_item_list), world_num)
    IN [p \in 1 .. Len(this_rank_index) |->
            all_rank_item_list[this_rank_index[p] + 1]]

\* list(range(6144)), scaled
AllShards == [p \in 1 .. NumShards |-> p - 1]

\* lines 125-130: the order and the generator state after it was drawn.
\* The call passes the literals rank=0 and world_num=1, whatever the rank of
\* the constructing process.
InitShardOrder(resampled, rank, world_num) ==
    LET order == partition_for_rank(AllShards, 0, 1)
    IN IF resampled THEN Shuffle(order, RngSeed(Seed))
       ELSE [list |-> order, rng |-> RngSeed(Seed)]

\* lines 133-139
ShardIdRange(order) ==
    [k \in {order[p] : p \in 1 .. Len(order)} |->
        LET i == (CHOOSE p \in 1 .. Len(order) : order[p] = k) - 1
        IN <<NumSamplesEachShard * i, NumSamplesEachShard * (i + 1) - 1>>]

\* A shard file of n records
ShardFile(k, n) == [l \in 1 .. n |-> <<k, l>>]

(***************************************************************************)
(* InterleavedDataset.load_data                                            *)
(***************************************************************************)
RecordRet(r) == [kind |-> "record", rec |-> r]
NoneRet == [kind |-> "none", rec |-> <<>>]
RaiseRet == [kind |-> "raise", rec |-> <<>>]

\* A variant that leaves index == length unreduced
ReduceIndexAbove(idx) == IF idx > Length THEN idx % Length ELSE idx

\* lines 168-169
ReduceIndex(idx) == IF idx >= Length THEN idx % Length ELSE idx

\* A variant that tests the hot shard as the scan tests the others
InHotShardExclusive(range, idx) == range[1] <= idx /\ idx < range[2]

\* line 171: start <= index <= end
InHotShard(range, idx) == range[1] <= idx /\ idx <= range[2]

\* line 175: start <= index < end
InScannedShard(range, idx) == range[1] <= idx /\ idx < range[2]

\* line 174: the position in dict order (the order of insertion, which is
\* shard_order) of the first shard whose test passes; 0 when the loop ends
\* without one.
RECURSIVE ScanFrom(_, _)
ScanFrom(idx, pos) ==
    IF pos > Len(shard_order) THEN 0
    ELSE IF InScannedShard(shard_id_range[shard_order[pos]], idx) THEN pos
    ELSE ScanFrom(idx, pos + 1)

\* deepcopy(data[offset]): IndexError past the end of the list
ItemAt(data, offset) ==
    IF offset + 1 <= Len(data) THEN RecordRet(data[offset + 1]) ELSE RaiseRet

\* load_data(idx) called on an object whose hot shard is name/data and whose
\* generator is in state s; file_ok says whether load_ann_file returns (TRUE)
\* or raises (FALSE).  The result: the object's new fields, what the call
\* returned, and whether a shard was loaded.
LoadDataFn(name, data, s, idx, file_ok) ==
    LET i == ReduceIndex(idx)
        hot == shard_id_range[name]
    IN IF InHotShard(hot, i)
       THEN [name |-> name, data |-> data, rng |-> s,
             ret |-> ItemAt(data, i - hot[1]), swapped |-> FALSE]
       ELSE LET pos == ScanFrom(i, 1)
            IN IF pos = 0
               THEN [name |-> name, data |-> data, rng |-> s,
                     ret |-> NoneRet, swapped |-> FALSE]
               ELSE LET shard_name == shard_order[pos]
                        start == shard_id_range[shard_name][1]
                        sh == Shuffle(shard_files[shard_name], s)
                    IN IF file_ok
                       THEN [name |-> shard_name, data |-> sh.list,
                             rng |-> sh.rng,
                             ret |-> ItemAt(sh.list, i - start),
                             swapped |-> TRUE]
                       \* line 176 has already run when line 177 raises
                       ELSE [name |-> shard_name, data |-> data, rng |-> s,
                             ret |-> RaiseRet, swapped |-> FALSE]

LoadDataOut(idx, file_ok) ==
    LoadDataFn(current_shard_name, current_shard_data, rng, idx, file_ok)

NoCall == [op |-> "none", index |-> 0, pre_name |-> 0, file_ok |-> TRUE,
           ret |-> NoneRet, swapped |-> FALSE]

\* Whether load_data(idx) gets as far as reading a shard file (line 177)
ReadsShardFile(idx) == LoadDataOut(idx, TRUE).swapped

(***************************************************************************)
(* InterleavedDataset.__len__ (lines 154-157).  With train_num_samples set *)
(* the method reads self.data_args, an attribute nothing in the class (or  *)
(* its base class) ever sets: the call ends in AttributeError.             *)
(***************************************************************************)
LenRaises == train_num_samples # {}

LenValue == Length

(***************************************************************************)
(* Construction (lines 102-144).  The first shard is loaded and shuffled   *)
(* by the constructor; a constructor that raises yields no object.         *)
(***************************************************************************)
DatasetInitWith(resampled, num_samples, extra) ==
    /\ dataset_resampled = resampled
    /\ train_num_samples = num_samples
    /\ shard_files = [k \in Shards |-> ShardFile(k, NumSamplesEachShard + extra)]
    /\ LET so == InitShardOrder(resampled, 0, 1)
           first == Shuffle(shard_files[so.list[1]], so.rng)
       IN /\ shard_order = so.list
          /\ shard_id_range = ShardIdRange(so.list)
          /\ current_shard_name = so.list[1]
          /\ current_shard_data = first.list
          /\ rng = first.rng
    /\ pc = "idle"
    /\ index = 0
    /\ item = NoneRet
    /\ last = NoCall
    /\ seq_next = 0
    /\ seq_served = <<>>
    /\ seq_swaps = <<>>

DatasetInit ==
    \E resampled \in BOOLEAN, num_samples \in {{}, {Length}}, extra \in 0 .. MaxExtra :
        DatasetInitWith(resampled, num_samples, extra)

\* A direct call load_data(idx); file_ok as in LoadDataFn
LoadData(idx, file_ok) ==
    /\ pc = "idle"
    /\ LET out == LoadDataOut(idx, file_ok)
       IN /\ out.rng <= MaxDraws
          /\ current_shard_name' = out.name
          /\ current_shard_data' = out.data
          /\ rng' = out.rng
          /\ last' = [op |-> "load_data", index |-> idx,
                      pre_name |-> current_shard_name,
                      file_ok |-> file_ok, ret |-> out.ret,
                      swapped |-> out.swapped]
          \* the requests 0, 1, 2, ... made in order from construction on,
          \* continued into the next epoch
          /\ IF seq_next = idx /\ file_ok
             THEN /\ seq_next' = seq_next + 1
                  /\ seq_served' = Append(seq_served, out.ret)
                  /\ seq_swaps' = IF out.swapped THEN Append(seq_swaps, idx)
                                  ELSE seq_swaps
             ELSE /\ seq_next' = -1
                  /\ seq_served' = <<>>
                  /\ seq_swaps' = <<>>
    /\ UNCHANGED <<dataset_resampled, train_num_samples, shard_files,
                   shard_order, shard_id_range, pc, index, item>>
    /\ UNCHANGED <<rankVars, tileVars, lazyVars, extVars>>

\* load_data(idx) in which every file read succeeds
LoadDataCall == \E idx \in Indices : LoadData(idx, TRUE)

\* load_data(idx) in which load_ann_file raises
LoadDataFileError ==
    \E idx \in Indices : ReadsShardFile(idx) /\ LoadData(idx, FALSE)

(***************************************************************************)
(* InterleavedDataset.__getitem__ (lines 298-307), one loop iteration per  *)
(* step.  getitem(index) calls load_data and then assembles the record;    *)
(* assembly (parsing, image loading, tokenisation and their assertions)    *)
(* either returns a bundle or raises: assembled says which.  A load_data   *)
(* that returned None makes parse_sample raise TypeError (line 205).       *)
(***************************************************************************)
GetItemCall ==
    \E i \in Indices :
        /\ pc = "idle"
        /\ pc' = "loop"
        /\ index' = i
        /\ item' = NoneRet
        /\ last' = NoCall
        /\ seq_next' = -1
        /\ seq_served' = <<>>
        /\ seq_swaps' = <<>>
        /\ UNCHANGED <<dataset_resampled, train_num_samples, shard_files, rng,
                       shard_order, shard_id_range, current_shard_name,
                       current_shard_data>>
        /\ UNCHANGED <<rankVars, tileVars, lazyVars, extVars>>

\* getitem(index) with the given outcomes of the file read and of assembly
GetItemTry(file_ok, assembled) ==
    /\ pc = "loop"
    /\ LET out == LoadDataOut(index, file_ok)
       IN /\ out.rng <= MaxDraws
          /\ current_shard_name' = out.name
          /\ current_shard_data' = out.data
          /\ rng' = out.rng
          /\ IF out.ret.kind = "record" /\ assembled
             THEN \* line 302: break, line 307: return item
                  /\ pc' = "returned"
                  /\ item' = out.ret
                  /\ UNCHANGED index
             ELSE \* lines 303-306
                  IF LenRaises
                  THEN /\ pc' = "raised"
                       /\ UNCHANGED <<index, item>>
                  ELSE /\ index' = (index + 1) % LenValue
                       /\ UNCHANGED <<pc, item>>
    /\ UNCHANGED <<dataset_resampled, train_num_samples, shard_files,
                   shard_order, shard_id_range, last, seq_next, seq_served,
                   seq_swaps>>
    /\ UNCHANGED <<rankVars, tileVars, lazyVars, extVars>>

GetItemAssembled == GetItemTry(TRUE, TRUE)

GetItemAssemblyError == GetItemTry(TRUE, FALSE)

GetItemFileError == ReadsShardFile(index) /\ GetItemTry(FALSE, FALSE)

\* getitem(index) when every file can be read and assembly succeeds on
\* exactly the records of assembling
GetItemStep ==
    \E assembled \in BOOLEAN :
        /\ assembled = (/\ LoadDataOut(index, TRUE).ret.kind = "record"
                        /\ LoadDataOut(index, TRUE).ret.rec \in assembling)
        /\ GetItemTry(TRUE, assembled)

\* The caller takes the bundle and the object waits for the next call
GetItemDone ==
    /\ pc = "returned"
    /\ pc' = "idle"
    /\ UNCHANGED <<dataset_resampled, train_num_samples, shard_files, rng,
                   shard_order, shard_id_range, current_shard_name,
                   current_shard_data, index, item, last, seq_next,
                   seq_served, seq_swaps>>
    /\ UNCHANGED <<rankVars, tileVars, lazyVars, extVars>>

vars == <<dsVars, rankVars, tileVars, lazyVars, extVars>>

(***************************************************************************)
(* InferenceSampler._get_local_indices (evaluate_grounding.py, 91-99)      *)
(***************************************************************************)
Min(a, b) == IF a <= b THEN a ELSE b

\* A variant that gives one rank too many an extra element
ShardSizeOfInclusive(total, world, r) ==
    (total \div world) + (IF r <= total % world THEN 1 ELSE 0)

\* line 95: shard_size + int(r < left)
ShardSizeOf(total, world, r) ==
    (total \div world) + (IF r < total % world THEN 1 ELSE 0)

\* sum(shard_sizes[:n])
RECURSIVE SumShardSizes(_, _, _)
SumShardSizes(total, world, n) ==
    IF n <= 0 THEN 0
    ELSE SumShardSizes(total, world, n - 1) + ShardSizeOf(total, world, n - 1)

\* range(begin, end) as the pair <<begin, end>>
get_local_indices(total, world, rank) ==
    LET begin == SumShardSizes(total, world, rank)
        end == Min(SumShardSizes(total, world, rank + 1), total)
    IN <<begin, end>>

\* The members of range(begin, end)
RangeSet(r) == r[1] .. (r[2] - 1)

Ranks == 0 .. (world_size - 1)

\* A variant that hands the lines left over to the last rank
LazyRawDataWithRest(total_lines, total_ranks, current_rank) ==
    LET lines_per_rank == total_lines \div total_ranks
        start_line == lines_per_rank * current_rank
        end_line == IF current_rank = total_ranks - 1 THEN total_lines
                    ELSE start_line + lines_per_rank
    IN [p \in 1 .. (Min(end_line, total_lines) - Min(start_line, total_lines))
            |-> start_line + p - 1]

\* LazySupervisedDataset.__init__, lines 216-223: self.raw_data as the
\* numbers (from 0) of the lines of the file it holds; a slice stops at the
\* end of the list
LazyRawData(total_lines, total_ranks, current_rank) ==
    LET lines_per_rank == total_lines \div total_ranks
        start_line == lines_per_rank * current_rank
        end_line == start_line + lines_per_rank
    IN [p \in 1 .. (Min(end_line, total_lines) - Min(start_line, total_lines))
            |-> start_line + p - 1]

\* LazySupervisedDataset.__len__, line 247
LazyLen(held_lines, total_ranks) == Len(held_lines) * total_ranks

NotBuilt == [built |-> FALSE, raw_data |-> <<>>, len |-> 0]

RanksInit ==
    /\ world_size \in 1 .. MaxWorldSize
    /\ total_size \in 1 .. MaxTotalSize
    /\ local_indices = [r \in Ranks |-> <<>>]
    /\ owned = [r \in Ranks |-> <<>>]
    /\ lazy_built = [r \in Ranks |-> NotBuilt]

\* InferenceSampler.__init__ on one rank (lines 84-89)
SamplerInit ==
    \E r \in Ranks :
        /\ local_indices[r] = <<>>
        /\ local_indices' = [local_indices EXCEPT
                                ![r] = get_local_indices(total_size, world_size, r)]
        /\ UNCHANGED <<world_size, total_size, owned, lazy_built>>
        /\ UNCHANGED <<dsVars, tileVars, lazyVars, extVars>>

\* InterleavedDataset.__init__ on one rank (lines 125-130)
DatasetConstruct ==
    \E r \in Ranks :
        /\ owned[r] = <<>>
        /\ owned' = [owned EXCEPT
                        ![r] = InitShardOrder(dataset_resampled, r, world_size).list]
        /\ UNCHANGED <<world_size, total_size, local_indices, lazy_built>>
        /\ UNCHANGED <<dsVars, tileVars, lazyVars, extVars>>

\* LazySupervisedDataset.__init__ on one rank (lines 214-223), and the
\* len() of the dataset it built
LazyConstruct ==
    \E r \in Ranks :
        /\ ~lazy_built[r].built
        /\ LET held_lines == LazyRawData(total_size, world_size, r)
           IN lazy_built' = [lazy_built EXCEPT
                                ![r] = [built |-> TRUE, raw_data |-> held_lines,
                                        len |-> LazyLen(held_lines, world_size)]]
        /\ UNCHANGED <<world_size, total_size, local_indices, owned>>
        /\ UNCHANGED <<dsVars, tileVars, lazyVars, extVars>>

RanksNext == SamplerInit \/ DatasetConstruct

SlicesNext == LazyConstruct

(***************************************************************************)
(* LazySupervisedDataset.find_closest_aspect_ratio and the candidate set   *)
(* of dynamic_preprocess (internvl_chat_pretrain.py, 249-281).             *)
(*                                                                         *)
(* Ratios are Python floats (IEEE 754 binary64): a quotient is rounded to  *)
(* 53 significant bits, ties to even, and so is a difference.  The         *)
(* quotients met (sides up to MaxDim, grids within the default budget) lie *)
(* in [2^-3, 2^3), so every float met is a whole number of units of 2^-55  *)
(* below 2^58; such a number is written as three limbs <<hi, mid, lo>> in  *)
(* base 2^20.  The code iterates a Python set: the order in which the loop *)
(* meets the candidates is the order of the slots of the set's table.      *)
(***************************************************************************)
Limb == 2 ^ 20

\* x + n for a limb-sized n, the carry taken through the limbs
AddSmall(x, n) ==
    LET lo == x[3] + n
        mid == x[2] + (lo \div Limb)
        hi == x[1] + (mid \div Limb)
    IN <<hi, mid % Limb, lo % Limb>>

\* x * 2^k for k <= 5
ShiftLeft(x, k) ==
    LET lo == x[3] * 2 ^ k
        mid == x[2] * 2 ^ k + (lo \div Limb)
        hi == x[1] * 2 ^ k + (mid \div Limb)
    IN <<hi, mid % Limb, lo % Limb>>

LimbsLess(x, y) ==
    \/ x[1] < y[1]
    \/ (x[1] = y[1] /\ x[2] < y[2])
    \/ (x[1] = y[1] /\ x[2] = y[2] /\ x[3] < y[3])

\* x - y for y <= x, the borrow taken through the limbs
Minus(x, y) ==
    LET lo == x[3] - y[3]
        b1 == IF lo < 0 THEN 1 ELSE 0
        mid == x[2] - y[2] - b1
        b2 == IF mid < 0 THEN 1 ELSE 0
    IN <<x[1] - y[1] - b2, mid + b2 * Limb, lo + b1 * Limb>>

\* The binary exponent e of a / b: 2^e <= a / b < 2^(e + 1)
Exponent(a, b) ==
    CHOOSE e \in -3 .. 2 :
        /\ b * 2 ^ (e + 3) <= a * 2 ^ 3
        /\ a * 2 ^ 3 < b * 2 ^ (e + 4)

\* Round-half-even applied to a quotient q with remainder r of divisor b
RoundsUp(q, r, b) == 2 * r > b \/ (2 * r = b /\ q % 2 = 1)

\* The float a / b: the quotient scaled to a 53-bit whole number by long
\* division, rounded, and put back in units of 2^-55
FloatDiv(a, b) ==
    LET e == Exponent(a, b)
        n0 == a * 2 ^ (12 - e)
        n1 == (n0 % b) * Limb
        n2 == (n1 % b) * Limb
        m == <<n0 \div b, n1 \div b, n2 \div b>>
        rounded == IF RoundsUp(m[3], n2 % b, b) THEN AddSmall(m, 1) ELSE m
    IN ShiftLeft(rounded, e + 3)

\* The number of bits of a three-limb number
LimbsBitLen(x) ==
    IF x[1] > 0 THEN 40 + BitLen(x[1])
    ELSE IF x[2] > 0 THEN 20 + BitLen(x[2])
    ELSE BitLen(x[3])

\* A number of up to 58 bits rounded to 53 significant bits
RoundToFloat(x) ==
    LET k == LimbsBitLen(x) - 53
    IN IF k <= 0 THEN x
       ELSE LET q == x[3] \div 2 ^ k
                r == x[3] % 2 ^ k
                down == <<x[1], x[2], x[3] - r>>
            IN IF RoundsUp(q, r, 2 ^ k) THEN AddSmall(down, 2 ^ k)
               ELSE down

\* abs(x - y) of two floats
FloatAbsDiff(x, y) ==
    RoundToFloat(IF LimbsLess(x, y) THEN Minus(y, x) ELSE Minus(x, y))

\* float('inf'): above every finite number
Infinity == <<Limb, 0, 0>>

\* lines 275-277
TargetRatios(lo, hi) ==
    {<<i, j>> : i \in 1 .. hi, j \in 1 .. hi} \cap
    {r \in (1 .. hi) \X (1 .. hi) :
        /\ \E n \in lo .. hi : r[1] <= n /\ r[2] <= n
        /\ r[1] * r[2] <= hi
        /\ r[1] * r[2] >= lo}

(***************************************************************************)
(* The set target_ratios (lines 275-277) and the order in which the loop   *)
(* of line 253 meets its members.  A set of the interpreter is a hash      *)
(* table and iterating it walks the table slot by slot, so the order is    *)
(* decided by the hashes of the tuples and by the order in which the       *)
(* generator expression yields them.  Neither the hash of a tuple of       *)
(* integers nor the table is part of the repository: they are the          *)
(* interpreter's (CPython 3.8 and later), modelled here on 64-bit words    *)
(* held as eight bytes, the low byte first.                                *)
(***************************************************************************)
\* The generator expression runs n from lo to hi and, within n, i and then
\* j from 1 to n: a tuple is first yielded in the round max(i, j, lo), and
\* within a round the tuples come in ascending order (i, then j).  A later
\* yield of the same tuple adds nothing to the set.
FirstRound(r, lo) ==
    CHOOSE n \in {r[1], r[2], lo} : \A m \in {r[1], r[2], lo} : m <= n

YieldedBefore(r, q, lo) ==
    \/ FirstRound(r, lo) < FirstRound(q, lo)
    \/ /\ FirstRound(r, lo) = FirstRound(q, lo)
       /\ (r[1] < q[1] \/ (r[1] = q[1] /\ r[2] < q[2]))

\* The tuples in the order of their first yield
FirstYields(lo, hi) ==
    LET S == TargetRatios(lo, hi)
    IN [p \in 1 .. Cardinality(S) |->
            CHOOSE r \in S :
                Cardinality({q \in S : YieldedBefore(q, r, lo)}) = p - 1]

\* A word from eight numbers, the carries taken upwards and the carry out
\* of the high byte dropped (arithmetic modulo 2^64)
RECURSIVE Carry(_, _, _)
Carry(raw, p, c) ==
    IF p > Len(raw) THEN <<>>
    ELSE <<(raw[p] + c) % 256>> \o Carry(raw, p + 1, (raw[p] + c) \div 256)

UInt64(raw) == Carry(raw, 1, 0)

\* The word of a number below 2^31
ToUInt64(n) == UInt64(<<n, 0, 0, 0, 0, 0, 0, 0>>)

Add64(a, b) == UInt64([p \in 1 .. 8 |-> a[p] + b[p]])

\* a[1]*b[p] + a[2]*b[p-1] + ... + a[q]*b[p+1-q]
RECURSIVE Dot(_, _, _, _)
Dot(a, b, p, q) ==
    IF q = 0 THEN 0 ELSE a[q] * b[p + 1 - q] + Dot(a, b, p, q - 1)

Mul64(a, b) == UInt64([p \in 1 .. 8 |-> Dot(a, b, p, p)])

RECURSIVE XorNat(_, _)
XorNat(a, b) ==
    IF a = 0 THEN b
    ELSE IF b = 0 THEN a
    ELSE ((a + b) % 2) + 2 * XorNat(a \div 2, b \div 2)

Xor64(a, b) == [p \in 1 .. 8 |-> XorNat(a[p], b[p])]

\* (x << 31) | (x >> 33): four bytes up, then one bit down
Rotate31(x) ==
    LET up == [p \in 1 .. 8 |-> x[((p + 3) % 8) + 1]]
    IN [p \in 1 .. 8 |-> (up[p] \div 2) + 128 * (up[(p % 8) + 1] % 2)]

\* The primes of the tuple hash
XXPRIME_1 == <<135, 202, 235, 133, 177, 121, 55, 158>>
XXPRIME_2 == <<79, 235, 212, 39, 61, 174, 178, 194>>
XXPRIME_5 == <<197, 103, 86, 22, 47, 235, 212, 39>>

\* The hash of a tuple of small non-negative integers, each of which is
\* its own hash: acc += lane * XXPRIME_2; acc = rotate(acc);
\* acc *= XXPRIME_1 for every item, then acc += len ^ (XXPRIME_5 ^ 3527539)
RECURSIVE HashItems(_, _, _)
HashItems(t, p, acc) ==
    IF p > Len(t) THEN acc
    ELSE HashItems(t, p + 1,
                   Mul64(Rotate31(Add64(acc, Mul64(ToUInt64(t[p]), XXPRIME_2))),
                         XXPRIME_1))

TupleHash(t) ==
    LET acc == Add64(HashItems(t, 1, XXPRIME_5),
                     Xor64(ToUInt64(Len(t)),
                           Xor64(XXPRIME_5, ToUInt64(3527539))))
    IN IF acc = [p \in 1 .. 8 |-> 255] THEN ToUInt64(1546275796) ELSE acc

\* Bit n of a word, and the number made of width bits from bit off on
BitOf(h, n) ==
    IF n >= 64 THEN 0 ELSE (h[(n \div 8) + 1] \div (2 ^ (n % 8))) % 2

RECURSIVE BitsFrom(_, _, _)
BitsFrom(h, off, width) ==
    IF width = 0 THEN 0
    ELSE BitOf(h, off) + 2 * BitsFrom(h, off + 1, width - 1)

\* A table is the sequence of its slots, slot i at position i + 1; a slot
\* holds a key or nothing (<<>>).  The slot in which the key is, or goes:
\* from slot i the next 9 slots are tried when they all lie in the table,
\* then perturb >>= 5 and i = (i * 5 + 1 + perturb) & mask.
RECURSIVE FindSlot(_, _, _, _, _)
FindSlot(table, key, h, i, shifts) ==
    LET mask == Len(table) - 1
        probes == IF i + 9 <= mask THEN 9 ELSE 0
        found == {j \in i .. (i + probes) :
                     table[j + 1] = <<>> \/ table[j + 1] = key}
    IN IF found # {} THEN CHOOSE j \in found : \A k \in found : j <= k
       ELSE FindSlot(table, key, h,
                     (i * 5 + 1 + BitsFrom(h, 5 * (shifts + 1), BitLen(mask)))
                         % (mask + 1),
                     shifts + 1)

SlotOf(table, key) ==
    LET h == TupleHash(key)
    IN FindSlot(table, key, h, BitsFrom(h, 0, BitLen(Len(table) - 1)), 0)

\* The size of the table after a resize: 8 doubled until above minused
RECURSIVE GrowTo(_, _)
GrowTo(size, minused) ==
    IF size <= minused THEN GrowTo(2 * size, minused) ELSE size

\* The keys of the old table put into the new one, slot by slot
RECURSIVE Reinsert(_, _, _)
Reinsert(old, p, table) ==
    IF p > Len(old) THEN table
    ELSE IF old[p] = <<>> THEN Reinsert(old, p + 1, table)
    ELSE Reinsert(old, p + 1,
                  [table EXCEPT ![SlotOf(table, old[p]) + 1] = old[p]])

\* set.add(key): a key already present changes nothing; a table filled to
\* 3/5 is replaced by one of more than four times as many slots as keys
SetAdd(table, key) ==
    LET slot == SlotOf(table, key)
        added == [table EXCEPT ![slot + 1] = key]
        fill == Cardinality({p \in 1 .. Len(added) : added[p] # <<>>})
    IN IF table[slot + 1] = key THEN table
       ELSE IF fill * 5 < (Len(table) - 1) * 3 THEN added
       ELSE Reinsert(added, 1, [p \in 1 .. GrowTo(8, fill * 4) |-> <<>>])

\* set(keys[1 .. p]): the keys added one by one to an empty table of 8
\* slots
RECURSIVE SetFrom(_, _)
SetFrom(keys, p) ==
    IF p = 0 THEN [q \in 1 .. 8 |-> <<>>]
    ELSE SetAdd(SetFrom(keys, p - 1), keys[p])

\* The keys of a table, slot by slot
RECURSIVE KeysFrom(_, _)
KeysFrom(table, p) ==
    IF p > Len(table) THEN <<>>
    ELSE (IF table[p] = <<>> THEN <<>> ELSE <<table[p]>>)
         \o KeysFrom(table, p + 1)

\* "for ratio in target_ratios" (line 253)
IterationOrder(lo, hi) ==
    LET keys == FirstYields(lo, hi)
    IN KeysFrom(SetFrom(keys, Len(keys)), 1)

Abs(x) == IF x < 0 THEN -x ELSE x

\* lines 254-255
RatioDiff(aspect_ratio, ratio) ==
    FloatAbsDiff(aspect_ratio, FloatDiv(ratio[1], ratio[2]))

\* line 256: ratio_diff < best_ratio_diff
FloatLess(a, b) == LimbsLess(a, b)

\* lines 250-258: the loop over target_ratios, from position p on
RECURSIVE SearchFrom(_, _, _, _, _)
SearchFrom(order, p, aspect_ratio, best_diff, best) ==
    IF p > Len(order) THEN best
    ELSE LET ratio_diff == RatioDiff(aspect_ratio, order[p])
         IN IF FloatLess(ratio_diff, best_diff)
            THEN SearchFrom(order, p + 1, aspect_ratio, ratio_diff, order[p])
            ELSE SearchFrom(order, p + 1, aspect_ratio, best_diff, best)

\* lines 250-258, with aspect_ratio = orig_width / orig_height of line 272
PrimarySearch(order, w, h) ==
    LET aspect_ratio == FloatDiv(w, h)
    IN SearchFrom(order, 1, aspect_ratio, Infinity, <<1, 1>>)

\* A variant that keeps a six-tile grid whatever the area
OverrideSixSkipped(best, area, size) == best

\* lines 259-262
OverrideSix(best, area, size) ==
    IF (best = <<2, 3>> \/ best = <<3, 2>>) /\ area < size * size * 4
    THEN <<2, 2>> ELSE best

\* A variant without the re-decision by area
OverrideSquareSkipped(best, area, size) == best

\* lines 263-267
OverrideSquare(best, area, size) ==
    IF best = <<1, 1>> \/ best = <<2, 2>>
    THEN (IF area < size * size THEN <<1, 1>> ELSE <<2, 2>>)
    ELSE best

\* lines 259-268
Overrides(best, area, size) == OverrideSquare(OverrideSix(best, area, size), area, size)

find_closest_aspect_ratio(order, w, h, size) ==
    Overrides(PrimarySearch(order, w, h), w * h, size)

\* A variant that fills the grid column by column
TileBoxByColumns(i, target_width, size) ==
    LET per_row == target_width \div size
    IN  <<(i \div per_row) * size, (i % per_row) * size,
          ((i \div per_row) + 1) * size, ((i % per_row) + 1) * size>>

\* The crop box of tile i (from 0), lines 292-297: left, upper, right, lower
TileBox(i, target_width, size) ==
    LET per_row == target_width \div size
    IN  <<(i % per_row) * size, (i \div per_row) * size,
          ((i % per_row) + 1) * size, ((i \div per_row) + 1) * size>>

\* A tile cut from the resized image, line 299
CropTile(box) == [kind |-> "crop", box |-> box]

\* The whole image resized to one tile, line 303
ThumbnailTile(size) == [kind |-> "thumbnail", box |-> <<0, 0, size, size>>]

\* The loop of lines 290-300 for the grid ratio = (columns, rows)
CropTiles(ratio, size) ==
    [p \in 1 .. (ratio[1] * ratio[2]) |->
        CropTile(TileBox(p - 1, size * ratio[1], size))]

\* A thumbnail appended to every tiling however many tiles it has
AddThumbnailAlways(tiles, use, size) ==
    IF use THEN Append(tiles, ThumbnailTile(size)) ELSE tiles

\* lines 302-304
AddThumbnail(tiles, use, size) ==
    IF use /\ Len(tiles) # 1 THEN Append(tiles, ThumbnailTile(size)) ELSE tiles

TileInit ==
    /\ tile_pc = "input"
    /\ processed_images = <<>>
    /\ image_flags = <<>>
    /\ min_num \in DefaultMinNum .. DefaultMaxNum
    /\ max_num \in min_num .. DefaultMaxNum
    /\ ratio_order = IterationOrder(min_num, max_num)
    /\ use_thumbnail \in BOOLEAN
    /\ image_size \in 1 .. MaxImageSize
    /\ orig_width \in 1 .. MaxDim
    /\ orig_height \in 1 .. MaxDim
    /\ primary_ratio = <<>>
    /\ best_ratio = <<>>

\* dynamic_preprocess, lines 270-305
DynamicPreprocess ==
    /\ tile_pc = "input"
    /\ tile_pc' = "done"
    /\ primary_ratio' = PrimarySearch(ratio_order, orig_width, orig_height)
    /\ best_ratio' = Overrides(primary_ratio', orig_width * orig_height,
                               image_size)
    /\ processed_images' = AddThumbnail(CropTiles(best_ratio', image_size),
                                        use_thumbnail, image_size)
    /\ UNCHANGED <<image_size, orig_width, orig_height, min_num, max_num,
                   ratio_order, use_thumbnail, image_flags>>
    /\ UNCHANGED <<dsVars, rankVars, lazyVars, extVars>>

TileNext == DynamicPreprocess

(***************************************************************************)
(* LazySupervisedDataset.pure_text_get_item (lines 348-373): the bundle of *)
(* a record without an image is built around a blank image that goes       *)
(* through dynamic_preprocess with its default budget.  The dataset is     *)
(* built with image_size = data_args.force_image_size (line 411), here a   *)
(* multiple of a sixteenth of the blank's side (the patch side of the      *)
(* vision model, of which the tile side is a multiple).                    *)
(***************************************************************************)
\* Image.new('RGB', (224, 224), ...), line 349
PlaceholderSide == 224

ImageSizes == {k * (PlaceholderSide \div 16) : k \in 1 .. (16 * MaxImageSize)}

PureTextInit ==
    /\ tile_pc = "input"
    /\ processed_images = <<>>
    /\ image_flags = <<>>
    /\ min_num = DefaultMinNum
    /\ max_num = DefaultMaxNum
    /\ ratio_order = IterationOrder(DefaultMinNum, DefaultMaxNum)
    /\ use_thumbnail \in BOOLEAN
    /\ image_size \in ImageSizes
    /\ orig_width = 0
    /\ orig_height = 0
    /\ primary_ratio = <<>>
    /\ best_ratio = <<>>

\* lines 349-355 and 371: the call raises when the assertion of line 355
\* fails
PureTextGetItem ==
    /\ tile_pc = "input"
    /\ orig_width' = PlaceholderSide
    /\ orig_height' = PlaceholderSide
    /\ primary_ratio' = PrimarySearch(ratio_order, orig_width', orig_height')
    /\ best_ratio' = Overrides(primary_ratio', orig_width' * orig_height',
                               image_size)
    /\ processed_images' = AddThumbnail(CropTiles(best_ratio', image_size),
                                        use_thumbnail, image_size)
    /\ IF Len(processed_images') = 1
       THEN /\ tile_pc' = "returned"
            /\ image_flags' = [p \in 1 .. Len(processed_images') |-> 0]
       ELSE /\ tile_pc' = "raised"
            /\ image_flags' = image_flags
    /\ UNCHANGED <<image_size, min_num, max_num, ratio_order, use_thumbnail>>
    /\ UNCHANGED <<dsVars, rankVars, lazyVars, extVars>>

PureTextNext == PureTextGetItem

(***************************************************************************)
(* LazySupervisedDataset.__getitem__ (internvl_chat_pretrain.py, 375-395). *)
(* A line of raw_data is one of                                            *)
(*   "good"      parses, and its bundle is assembled;                      *)
(*   "bad_image" parses and names an image, and assembly raises (the image *)
(*               cannot be loaded);                                        *)
(*   "bad_json"  json.loads raises on it.                                  *)
(***************************************************************************)
LineKinds == {"good", "bad_image", "bad_json"}

LazyInit ==
    /\ \E n \in 1 .. MaxLines : raw_data \in [1 .. n -> LineKinds]
    /\ lazy_pc = "idle"
    /\ lazy_i = 0
    /\ lazy_ret = 0

\* line 376
LazyGetItemCall ==
    \E i \in 0 .. (2 * Len(raw_data) - 1) :
        /\ lazy_pc = "idle"
        /\ lazy_pc' = "loop"
        /\ lazy_i' = i % Len(raw_data)
        /\ UNCHANGED <<raw_data, lazy_ret>>
        /\ UNCHANGED <<dsVars, rankVars, tileVars, extVars>>

\* Whether the except clause (lines 385-394) runs to its end: its first
\* statement parses the line again, outside any try.
HandlerCompletes(kind) == kind # "bad_json"

\* lines 378-384: the try body succeeds
LazyAssembled ==
    /\ lazy_pc = "loop"
    /\ raw_data[lazy_i + 1] = "good"
    /\ lazy_pc' = "returned"
    /\ lazy_ret' = lazy_i
    /\ UNCHANGED <<raw_data, lazy_i>>
    /\ UNCHANGED <<dsVars, rankVars, tileVars, extVars>>

\* lines 385-394: the try body raised and the handler draws another index
LazyRetry ==
    /\ lazy_pc = "loop"
    /\ raw_data[lazy_i + 1] # "good"
    /\ HandlerCompletes(raw_data[lazy_i + 1])
    /\ \E j \in 0 .. (Len(raw_data) - 1) : lazy_i' = j
    /\ UNCHANGED <<raw_data, lazy_pc, lazy_ret>>
    /\ UNCHANGED <<dsVars, rankVars, tileVars, extVars>>

\* line 387: the handler itself raises
LazyHandlerRaises ==
    /\ lazy_pc = "loop"
    /\ raw_data[lazy_i + 1] # "good"
    /\ ~HandlerCompletes(raw_data[lazy_i + 1])
    /\ lazy_pc' = "raised"
    /\ UNCHANGED <<raw_data, lazy_i, lazy_ret>>
    /\ UNCHANGED <<dsVars, rankVars, tileVars, extVars>>

LazyDone ==
    /\ lazy_pc = "returned"
    /\ lazy_pc' = "idle"
    /\ UNCHANGED <<raw_data, lazy_i, lazy_ret>>
    /\ UNCHANGED <<dsVars, rankVars, tileVars, extVars>>

LazyNext ==
    \/ LazyGetItemCall
    \/ LazyAssembled
    \/ LazyRetry
    \/ LazyHandlerRaises
    \/ LazyDone

(***************************************************************************)
(* load_json, load_json_line and load_jsonl (interleaved_dataset.py,       *)
(* 27-83).  A text is a sequence of one-character strings.  json.loads is  *)
(* modelled on the JSON texts that can be written with the characters      *)
(*     [  ]  1  n u l  space  newline  x                                   *)
(* that is: numbers made of the digit 1, the literal null, arrays of at    *)
(* most one element, and white space; x never occurs in a JSON text.  The  *)
(* value of a text is the text without its white space, which names the    *)
(* parsed value uniquely for this grammar; Python's None is the value of   *)
(* null.                                                                   *)
(***************************************************************************)
Whitespace == {" ", "\n"}

RECURSIVE SkipWs(_, _)
\* The first position from p on that holds no white space
SkipWs(s, p) ==
    IF p <= Len(s) /\ s[p] \in Whitespace THEN SkipWs(s, p + 1) ELSE p

RECURSIVE SkipDigits(_, _)
SkipDigits(s, p) ==
    IF p <= Len(s) /\ s[p] = "1" THEN SkipDigits(s, p + 1) ELSE p

NullText == <<"n", "u", "l", "l">>

IsNullAt(s, p) == p + 3 <= Len(s) /\ SubSeq(s, p, p + 3) = NullText

RECURSIVE ScanValue(_, _)
\* The position after the JSON value that starts at p, or 0 if none does
ScanValue(s, p) ==
    IF p > Len(s) THEN 0
    ELSE IF s[p] = "1" THEN SkipDigits(s, p)
    ELSE IF IsNullAt(s, p) THEN p + 4
    ELSE IF s[p] = "[" THEN
        LET q == SkipWs(s, p + 1)
        IN  IF q <= Len(s) /\ s[q] = "]" THEN q + 1
            ELSE LET r == ScanValue(s, q)
                     t == SkipWs(s, r)
                 IN  IF r # 0 /\ t <= Len(s) /\ s[t] = "]" THEN t + 1 ELSE 0
    ELSE 0

\* json.loads(s) does not raise
JsonParses(s) ==
    LET r == ScanValue(s, SkipWs(s, 1))
    IN  r # 0 /\ SkipWs(s, r) = Len(s) + 1

\* what json.loads(s) returns when it does not raise
JsonValue(s) == SelectSeq(s, LAMBDA c : c \notin Whitespace)

\* str.strip()
RECURSIVE StripRight(_)
StripRight(s) ==
    IF s # <<>> /\ s[Len(s)] \in Whitespace
    THEN StripRight(SubSeq(s, 1, Len(s) - 1)) ELSE s

Strip(s) == StripRight(SubSeq(s, SkipWs(s, 1), Len(s)))

\* line_str[:-1] with the first character removed instead of the last
TrimFirst(s) == SubSeq(s, 2, Len(s))

\* line_str[:-1], line 54
TrimLast(s) == SubSeq(s, 1, Len(s) - 1)

\* try_times of load_json_line, line 44
LineTryTimes == 20

\* try_times < 10 of load_json, line 31
JsonFetchTries == 10

\* try_times < 10 of load_jsonl, line 63
JsonlFetchTries == 10

RECURSIVE ParseLoop(_, _)
\* The while loop of load_json_line (lines 46-54) after tries failed attempts:
\* data, the number of json.loads calls made, and line_str when it ends.
ParseLoop(line_str, tries) ==
    IF tries < LineTryTimes
    THEN IF JsonParses(line_str)
         THEN [parsed |-> TRUE, value |-> JsonValue(line_str),
               attempts |-> tries + 1, line_str |-> line_str]
         ELSE ParseLoop(TrimLast(line_str), tries + 1)
    ELSE [parsed |-> FALSE, value |-> NullText, attempts |-> tries,
          line_str |-> line_str]

\* load_json_line, lines 44-57: data is None after a failed last attempt and
\* also when the text parsed is null
load_json_line(line_str) ==
    LET loop == ParseLoop(line_str, 0)
    IN  [line |-> line_str,
         parsed |-> loop.parsed,
         attempts |-> loop.attempts,
         kind |-> IF loop.value = NullText THEN "raise" ELSE "value",
         value |-> loop.value,
         text |-> loop.line_str]

NoLineCall == [line |-> <<>>, parsed |-> FALSE, attempts |-> 0, kind |-> "none", value |-> <<>>,
               text |-> <<>>]

\* The loop guard with one attempt too many
MayFetchInclusive(fn, tries) ==
    tries <= (IF fn = "load_json" THEN JsonFetchTries ELSE JsonlFetchTries)

\* while try_times < 10, lines 31 and 63
MayFetch(fn, tries) ==
    tries < (IF fn = "load_json" THEN JsonFetchTries ELSE JsonlFetchTries)

\* The filter keeping every line that is not blank
KeepsLineNonBlank(line) == Len(Strip(line)) > 0

\* if len(line.strip()) > 2, line 77
KeepsLine(line) == Len(Strip(line)) > 2

\* The error of load_jsonl carrying what load_json_line reported
LineErrorInner(line, inner_text) ==
    [kind |-> "raise", type |-> "ValueError", text |-> inner_text,
     cause |-> inner_text]

\* raise ValueError(f'Failed to load line: {line}') from e, line 82
LineError(line, inner_text) ==
    [kind |-> "raise", type |-> "ValueError", text |-> line,
     cause |-> inner_text]

OtherError(type) == [kind |-> "raise", type |-> type, text |-> <<>>, cause |-> <<>>]

Returned(value) == [kind |-> "return", type |-> "", text |-> value, cause |-> <<>>]

NoResult == [kind |-> "none", type |-> "", text |-> <<>>, cause |-> <<>>]

RECURSIVE Flatten(_)
\* The text of a file from its lines
Flatten(ls) == IF ls = <<>> THEN <<>> ELSE Head(ls) \o Flatten(Tail(ls))

Repeat(c, n) == [p \in 1 .. n |-> c]

\* The lines files are made of, each without its newline: a one-element
\* array alone, followed by one stray character, followed by the most stray
\* characters that (with the newline) LineTryTimes attempts can remove and by
\* one more than that, with white space inside; null; a number too short to
\* be kept; a blank line; a line that is no JSON at all.
SampleLines ==
    { <<"[", "1", "]">>,
      <<"[", "1", "]", "x">>,
      <<"[", "1", "]">> \o Repeat("x", LineTryTimes - 2),
      <<"[", "1", "]">> \o Repeat("x", LineTryTimes - 1),
      <<"[", " ", "1", "]">>,
      NullText,
      <<"1">>,
      <<>>,
      <<"x", "x", "x">> }

MaxFileLines == 2

\* readlines(): every line ends with its newline, the last one possibly not
FileOf(bodies, final_newline) ==
    [p \in 1 .. Len(bodies) |->
        IF p < Len(bodies) \/ final_newline
        THEN bodies[p] \o <<"\n">> ELSE bodies[p]]

Files ==
    {FileOf(b, TRUE) :
        b \in UNION {[1 .. n -> SampleLines] : n \in 0 .. MaxFileLines}}
    \cup
    {FileOf(b, FALSE) :
        b \in {c \in UNION {[1 .. n -> SampleLines] : n \in 1 .. MaxFileLines} :
                  c[Len(c)] # <<>>}}

LoadInitWith(fn, is_remote, file) ==
    /\ load_fn = fn
    /\ remote = is_remote
    /\ file_lines = file
    /\ load_pc = IF is_remote THEN "fetch" ELSE "read"
    /\ try_times = 0
    /\ fetch_calls = 0
    /\ bytes = IF is_remote /\ fn = "load_json" THEN "None" ELSE "unbound"
    /\ lines = <<>>
    /\ line_no = 1
    /\ jsonl_data = <<>>
    /\ last_line = NoLineCall
    /\ load_ret = NoResult

LoadInit ==
    \E fn \in {"load_json", "load_jsonl"}, is_remote \in BOOLEAN, file \in Files :
        LoadInitWith(fn, is_remote, file)

LoadParked == LoadInitWith("load_jsonl", FALSE, <<>>)

\* _client.get returns the bytes: lines 33-34 and 65-66
FetchOk ==
    /\ load_pc = "fetch"
    /\ MayFetch(load_fn, try_times)
    /\ fetch_calls' = fetch_calls + 1
    /\ bytes' = "fetched"
    /\ load_pc' = "read"
    /\ UNCHANGED <<load_fn, remote, file_lines, try_times, lines, line_no,
                   jsonl_data, last_line, load_ret>>
    /\ UNCHANGED <<dsVars, rankVars, tileVars, lazyVars, asmVars, evalVars,
                 serveVars, skipVars>>

\* _client.get raises: lines 35-38 and 67-70
FetchFail ==
    /\ load_pc = "fetch"
    /\ MayFetch(load_fn, try_times)
    /\ fetch_calls' = fetch_calls + 1
    /\ try_times' = try_times + 1
    /\ UNCHANGED <<load_fn, remote, file_lines, load_pc, bytes, lines, line_no,
                   jsonl_data, last_line, load_ret>>
    /\ UNCHANGED <<dsVars, rankVars, tileVars, lazyVars, asmVars, evalVars,
                 serveVars, skipVars>>

\* The while loop ends without a break
FetchGiveUp ==
    /\ load_pc = "fetch"
    /\ ~MayFetch(load_fn, try_times)
    /\ load_pc' = "read"
    /\ UNCHANGED <<load_fn, remote, file_lines, try_times, fetch_calls, bytes,
                   lines, line_no, jsonl_data, last_line, load_ret>>
    /\ UNCHANGED <<dsVars, rankVars, tileVars, lazyVars, asmVars, evalVars,
                 serveVars, skipVars>>

\* What is read: the file for a local path, the fetched bytes for a remote
\* one; io.BytesIO(None) is an empty buffer.
Content == IF ~remote \/ bytes = "fetched" THEN file_lines ELSE <<>>

\* load_json: json.load of the content, lines 39 and 41
ReadJson ==
    /\ load_pc = "read"
    /\ load_fn = "load_json"
    /\ IF JsonParses(Flatten(Content))
       THEN /\ load_pc' = "returned"
            /\ load_ret' = Returned(JsonValue(Flatten(Content)))
       ELSE /\ load_pc' = "raised"
            /\ load_ret' = OtherError("JSONDecodeError")
    /\ UNCHANGED <<load_fn, remote, file_lines, try_times, fetch_calls, bytes,
                   lines, line_no, jsonl_data, last_line>>
    /\ UNCHANGED <<dsVars, rankVars, tileVars, lazyVars, asmVars, evalVars,
                 serveVars, skipVars>>

\* load_jsonl: readlines, lines 71 and 73; reading the unbound local bytes
\* raises UnboundLocalError
ReadJsonl ==
    /\ load_pc = "read"
    /\ load_fn = "load_jsonl"
    /\ IF remote /\ bytes = "unbound"
       THEN /\ load_pc' = "raised"
            /\ load_ret' = OtherError("UnboundLocalError")
            /\ lines' = lines
       ELSE /\ load_pc' = "lines"
            /\ lines' = Content
            /\ load_ret' = load_ret
    /\ UNCHANGED <<load_fn, remote, file_lines, try_times, fetch_calls, bytes,
                   line_no, jsonl_data, last_line>>
    /\ UNCHANGED <<dsVars, rankVars, tileVars, lazyVars, asmVars, evalVars,
                 serveVars, skipVars>>

\* One iteration of the for loop, lines 76-82
JsonlLine(kept, kind) ==
    /\ load_pc = "lines"
    /\ line_no <= Len(lines)
    /\ KeepsLine(lines[line_no]) = kept
    /\ LET line == lines[line_no]
           res == load_json_line(line)
       IN  IF ~kept
           THEN /\ kind = "skip"
                /\ line_no' = line_no + 1
                /\ UNCHANGED <<load_pc, jsonl_data, last_line, load_ret>>
           ELSE /\ res.kind = kind
                /\ last_line' = res
                /\ IF kind = "value"
                   THEN /\ jsonl_data' = Append(jsonl_data, res.value)
                        /\ line_no' = line_no + 1
                        /\ UNCHANGED <<load_pc, load_ret>>
                   ELSE /\ load_pc' = "raised"
                        /\ load_ret' = LineError(line, res.text)
                        /\ UNCHANGED <<jsonl_data, line_no>>
    /\ UNCHANGED <<load_fn, remote, file_lines, try_times, fetch_calls, bytes,
                   lines>>
    /\ UNCHANGED <<dsVars, rankVars, tileVars, lazyVars, asmVars, evalVars,
                 serveVars, skipVars>>

JsonlLineSkipped == JsonlLine(FALSE, "skip")

JsonlLineLoaded == JsonlLine(TRUE, "value")

JsonlLineFails == JsonlLine(TRUE, "raise")

\* return data, line 83
JsonlReturn ==
    /\ load_pc = "lines"
    /\ line_no > Len(lines)
    /\ load_pc' = "returned"
    /\ load_ret' = Returned(jsonl_data)
    /\ UNCHANGED <<load_fn, remote, file_lines, try_times, fetch_calls, bytes,
                   lines, line_no, jsonl_data, last_line>>
    /\ UNCHANGED <<dsVars, rankVars, tileVars, lazyVars, asmVars, evalVars,
                 serveVars, skipVars>>

LoadNext ==
    \/ FetchOk
    \/ FetchFail
    \/ FetchGiveUp
    \/ ReadJson
    \/ ReadJsonl
    \/ JsonlLineSkipped
    \/ JsonlLineLoaded
    \/ JsonlLineFails
    \/ JsonlReturn

(***************************************************************************)
(* InterleavedDataset.parse_sample and getitem (interleaved_dataset.py,    *)
(* 204-296).  A record is a sequence of slots; slot i holds images[i] and  *)
(* texts[i]:                                                               *)
(*   "image"    an image that loads, text None                             *)
(*   "broken"   an image whose load fails, text None                       *)
(*   "off"      an image the record's valid_image marks False, text None   *)
(*   "text"     no image, a text of one word                               *)
(*   "empty"    no image, the empty text                                   *)
(*   "literal"  no image, the text '<image>'                               *)
(*   "orphan"   no image, text None                                        *)
(* A text is a sequence of tokens [t, slot]: the word of slot i is         *)
(* [t |-> "word", slot |-> i]; '\n\n', '<image>' and the three marker      *)
(* tokens carry slot 0.  The tokenizer maps each token to one id and keeps *)
(* the first model_max_length of them.                                     *)
(***************************************************************************)
SlotKinds == {"image", "broken", "off", "text", "empty", "literal", "orphan"}

MaxSlots == 3

MaxNumImages == 2

ImageTokenBudgets == {1, 2}

ModelMaxLengths == {3, 5, 12}

Tok(t) == [t |-> t, slot |-> 0]

Word(i) == [t |-> "word", slot |-> i]

\* images[i] is not None
HasImage(kind) == kind \in {"image", "broken", "off"}

\* texts[i] is None
TextIsNone(kind) == kind \in {"image", "broken", "off", "orphan"}

\* texts[i] when it is not None
TextOf(kind, i) ==
    CASE kind = "text" -> <<Word(i)>>
      [] kind = "literal" -> <<Tok("<image>")>>
      [] OTHER -> <<>>

\* The slots of the record that hold an image, in order: the list images
\* of line 240
ImageSlots(rec) == SelectSeq([i \in 1 .. Len(rec) |-> i], LAMBDA i : HasImage(rec[i]))

\* The slots whose text is None, in order
NoneTextSlots(rec) ==
    SelectSeq([i \in 1 .. Len(rec) |-> i], LAMBDA i : TextIsNone(rec[i]))

\* sample['valid_image']
RecordValidImage(rec) ==
    [j \in 1 .. Len(ImageSlots(rec)) |-> rec[ImageSlots(rec)[j]] # "off"]

\* The assertions of parse_sample, lines 219-220
ParseSampleOk(rec) ==
    /\ Len(ImageSlots(rec)) = Len(NoneTextSlots(rec))
    /\ Len(NoneTextSlots(rec)) = Len(RecordValidImage(rec))

\* self.load_image(img) is not None
Loads(rec, slot) == rec[slot] = "image"

\* The limit test letting one image too many through
OverLimitStrict(valid_count, limit) == valid_count > limit

\* valid_count >= self.max_num_images, line 247
OverLimit(valid_count, limit) == valid_count >= limit

RECURSIVE LoadLoop(_, _, _, _, _, _)
\* The loop of lines 245-255 from position idx (from 1) of images
LoadLoop(rec, limit, idx, valid, loaded, valid_count) ==
    IF idx > Len(ImageSlots(rec)) \/ idx > Len(valid)
    THEN [valid |-> valid, loaded |-> loaded]
    ELSE IF ~valid[idx]
    THEN LoadLoop(rec, limit, idx + 1, valid, loaded, valid_count)
    ELSE IF OverLimit(valid_count, limit)
    THEN LoadLoop(rec, limit, idx + 1, [valid EXCEPT ![idx] = FALSE], loaded,
                  valid_count)
    ELSE IF Loads(rec, ImageSlots(rec)[idx])
    THEN LoadLoop(rec, limit, idx + 1, valid,
                  Append(loaded, ImageSlots(rec)[idx]), valid_count + 1)
    ELSE LoadLoop(rec, limit, idx + 1, [valid EXCEPT ![idx] = FALSE], loaded,
                  valid_count)

CountTrue(flags) == Cardinality({j \in 1 .. Len(flags) : flags[j]})

\* assert len(images) > 0 and sum(valid_image), line 258
ImagesAssertOk(loaded, valid) == Len(loaded) > 0 /\ CountTrue(valid) # 0

RECURSIVE MarkTexts(_, _, _, _)
\* The loop of lines 260-265 from slot i, with image_idx images passed:
\* the list texts afterwards, None written as <<Tok("None")>>
MarkTexts(rec, valid, i, image_idx) ==
    IF i > Len(rec) THEN <<>>
    ELSE IF TextIsNone(rec[i])
    THEN <<IF valid[image_idx + 1] THEN <<Tok("<image>")>> ELSE <<Tok("None")>>>>
         \o MarkTexts(rec, valid, i + 1, image_idx + 1)
    ELSE <<TextOf(rec[i], i)>> \o MarkTexts(rec, valid, i + 1, image_idx)

\* [_ for _ in texts if _]: None and the empty text are dropped
Truthy(txt) == txt # <<>> /\ txt # <<Tok("None")>>

RECURSIVE Join(_)
\* '\n\n'.join, line 266
Join(txts) ==
    IF txts = <<>> THEN <<>>
    ELSE IF Len(txts) = 1 THEN Head(txts)
    ELSE Head(txts) \o <<Tok("\n\n")>> \o Join(Tail(txts))

RECURSIVE DropSepAfterImage(_)
\* text.replace('<image>\n\n', '<image>'), line 268
DropSepAfterImage(t) ==
    IF Len(t) < 2 THEN t
    ELSE IF t[1] = Tok("<image>") /\ t[2] = Tok("\n\n")
    THEN <<t[1]>> \o DropSepAfterImage(SubSeq(t, 3, Len(t)))
    ELSE <<t[1]>> \o DropSepAfterImage(Tail(t))

RECURSIVE DropSepBeforeImage(_)
\* .replace('\n\n<image>', '<image>'), line 268
DropSepBeforeImage(t) ==
    IF Len(t) < 2 THEN t
    ELSE IF t[1] = Tok("\n\n") /\ t[2] = Tok("<image>")
    THEN <<t[2]>> \o DropSepBeforeImage(SubSeq(t, 3, Len(t)))
    ELSE <<t[1]>> \o DropSepBeforeImage(Tail(t))

\* image_tokens, line 269
ImageTokens(budget) ==
    <<Tok("<img>")>> \o [p \in 1 .. budget |-> Tok("<IMG_CONTEXT>")]
    \o <<Tok("</img>")>>

RECURSIVE ReplaceImages(_, _, _)
\* text.replace('<image>', image_tokens, count), line 270
ReplaceImages(t, block, count) ==
    IF t = <<>> \/ count = 0 THEN t
    ELSE IF Head(t) = Tok("<image>")
    THEN block \o ReplaceImages(Tail(t), block, count - 1)
    ELSE <<Head(t)>> \o ReplaceImages(Tail(t), block, count)

\* lines 260-270
Interleave(rec, valid, loaded, budget) ==
    ReplaceImages(
        DropSepBeforeImage(DropSepAfterImage(
            Join(SelectSeq(MarkTexts(rec, valid, 1, 0), Truthy)))),
        ImageTokens(budget), Len(loaded))

\* The ids the tokenizer gives the tokens
TokenId(tok) ==
    CASE tok.t = "<img>" -> 1
      [] tok.t = "</img>" -> 2
      [] tok.t = "<IMG_CONTEXT>" -> 3
      [] tok.t = "\n\n" -> 4
      [] tok.t = "<image>" -> 5
      [] OTHER -> 10 + tok.slot

image_start_token_id == TokenId(Tok("<img>"))

image_end_token_id == TokenId(Tok("</img>"))

image_context_token_id == TokenId(Tok("<IMG_CONTEXT>"))

\* self.tokenizer(text, max_length=..., truncation=True), lines 271-277
Tokenize(t, max_length) ==
    [p \in 1 .. (IF Len(t) < max_length THEN Len(t) ELSE max_length) |->
        TokenId(t[p])]

CountOf(ids, id) == Cardinality({p \in 1 .. Len(ids) : ids[p] = id})

\* The check of line 285 left out
NotTruncatedUnchecked(ids, budget, loaded) == TRUE

\* The assertion of line 285
NotTruncated(ids, budget, loaded) ==
    CountOf(ids, image_context_token_id) = budget * Len(loaded)

\* the ignore index of lines 286-288
IgnoreIndex == -100

\* Masking that leaves the end marker in the labels
MaskLabelsNoEnd(ids) ==
    [p \in 1 .. Len(ids) |->
        IF ids[p] \in {image_start_token_id, image_context_token_id}
        THEN IgnoreIndex ELSE ids[p]]

\* lines 281 and 286-288
MaskLabels(ids) ==
    [p \in 1 .. Len(ids) |->
        IF ids[p] \in {image_start_token_id, image_end_token_id,
                       image_context_token_id}
        THEN IgnoreIndex ELSE ids[p]]

Records == UNION {[1 .. n -> SlotKinds] : n \in 0 .. MaxSlots}

AsmInitWith(rec, limit, budget, max_length, bound) ==
    /\ sample = rec
    /\ max_num_images = limit
    /\ num_image_token = budget
    /\ model_max_length = max_length
    /\ tokenizer_bound = bound
    /\ asm_pc = "parse"
    /\ valid_image = <<>>
    /\ loaded_images = <<>>
    /\ text = <<>>
    /\ input_ids = <<>>
    /\ labels = <<>>
    /\ asm_err = ""

AsmInit ==
    \E rec \in Records, limit \in 1 .. MaxNumImages, budget \in ImageTokenBudgets,
       max_length \in ModelMaxLengths, bound \in BOOLEAN :
        AsmInitWith(rec, limit, budget, max_length, bound)

AsmParked == AsmInitWith(<<>>, 1, 1, 3, TRUE)

AsmRaise(err) ==
    /\ asm_pc' = "raised"
    /\ asm_err' = err

\* parse_sample, line 238
AsmParse ==
    /\ asm_pc = "parse"
    /\ IF ParseSampleOk(sample)
       THEN /\ asm_pc' = "images"
            /\ valid_image' = RecordValidImage(sample)
            /\ asm_err' = asm_err
       ELSE /\ AsmRaise("AssertionError")
            /\ valid_image' = valid_image
    /\ UNCHANGED <<sample, max_num_images, num_image_token, model_max_length,
                   tokenizer_bound, loaded_images, text, input_ids, labels>>
    /\ UNCHANGED <<dsVars, rankVars, tileVars, lazyVars, loadVars, evalVars,
                 serveVars, skipVars>>

\* lines 243-258
AsmLoadImages ==
    /\ asm_pc = "images"
    /\ LET out == LoadLoop(sample, max_num_images, 1, valid_image, <<>>, 0)
       IN  /\ valid_image' = out.valid
           /\ loaded_images' = out.loaded
           /\ IF ImagesAssertOk(out.loaded, out.valid)
              THEN asm_pc' = "text" /\ asm_err' = asm_err
              ELSE AsmRaise("AssertionError")
    /\ UNCHANGED <<sample, max_num_images, num_image_token, model_max_length,
                   tokenizer_bound, text, input_ids, labels>>
    /\ UNCHANGED <<dsVars, rankVars, tileVars, lazyVars, loadVars, evalVars,
                 serveVars, skipVars>>

\* lines 260-270
AsmInterleave ==
    /\ asm_pc = "text"
    /\ text' = Interleave(sample, valid_image, loaded_images, num_image_token)
    /\ asm_pc' = "tokenize"
    /\ UNCHANGED <<sample, max_num_images, num_image_token, model_max_length,
                   tokenizer_bound, valid_image, loaded_images, input_ids,
                   labels, asm_err>>
    /\ UNCHANGED <<dsVars, rankVars, tileVars, lazyVars, loadVars, evalVars,
                 serveVars, skipVars>>

\* lines 271-280: the argument tokenizer.model_max_length reads the
\* module-level name tokenizer
AsmTokenize ==
    /\ asm_pc = "tokenize"
    /\ IF tokenizer_bound
       THEN /\ input_ids' = Tokenize(text, model_max_length)
            /\ asm_pc' = "labels"
            /\ asm_err' = asm_err
       ELSE /\ AsmRaise("NameError")
            /\ input_ids' = input_ids
    /\ UNCHANGED <<sample, max_num_images, num_image_token, model_max_length,
                   tokenizer_bound, valid_image, loaded_images, text, labels>>
    /\ UNCHANGED <<dsVars, rankVars, tileVars, lazyVars, loadVars, evalVars,
                 serveVars, skipVars>>

\* lines 281-296
AsmLabels ==
    /\ asm_pc = "labels"
    /\ IF NotTruncated(input_ids, num_image_token, loaded_images)
       THEN /\ labels' = MaskLabels(input_ids)
            /\ asm_pc' = "returned"
            /\ asm_err' = asm_err
       ELSE /\ AsmRaise("image tokens are truncated")
            /\ labels' = labels
    /\ UNCHANGED <<sample, max_num_images, num_image_token, model_max_length,
                   tokenizer_bound, valid_image, loaded_images, text, input_ids>>
    /\ UNCHANGED <<dsVars, rankVars, tileVars, lazyVars, loadVars, evalVars,
                 serveVars, skipVars>>

AsmNext ==
    \/ AsmParse
    \/ AsmLoadImages
    \/ AsmInterleave
    \/ AsmTokenize
    \/ AsmLabels

(***************************************************************************)
(* The record objects behind load_data (line 172) and getitem (lines       *)
(* 236-265).  current_shard_data[p] is the object heap[p]; an object holds *)
(* the record's slots and its two lists that getitem writes to:            *)
(* valid_image (lines 248, 254) and texts (line 263).  parse_sample        *)
(* returns the record's own texts, and its own valid_image when the record *)
(* is stored with that key: those writes land in the object getitem was    *)
(* handed.  For a record stored without the key, line 218 makes a list of  *)
(* True that no object holds.  The entry valid_image of an object is {}    *)
(* without the key and {flags} with it.                                    *)
(***************************************************************************)
\* sample['texts'], None written as <<Tok("None")>>
RecordTexts(rec) ==
    [i \in 1 .. Len(rec) |->
        IF TextIsNone(rec[i]) THEN <<Tok("None")>> ELSE TextOf(rec[i], i)]

\* A record as load_jsonl built it, stored with the key valid_image
\* (keyed) or without it
NewObject(rec, keyed) ==
    [rec |-> rec,
     valid_image |-> IF keyed THEN {RecordValidImage(rec)} ELSE {},
     texts |-> RecordTexts(rec)]

\* sample.get('valid_image', [True] * sum(img is not None ...)), line 218
GetValidImage(obj) ==
    IF obj.valid_image = {}
    THEN [j \in 1 .. Len(ImageSlots(obj.rec)) |-> TRUE]
    ELSE CHOOSE flags \in obj.valid_image : TRUE

\* Handing out the cached object itself
ShareObject(objects, ref) == [heap |-> objects, ref |-> ref]

\* deepcopy(obj): a new object with the same contents
DeepCopy(objects, ref) ==
    [heap |-> Append(objects, objects[ref]), ref |-> Len(objects) + 1]

\* The object after getitem has run on it (lines 238-265): the flags the
\* image loop cleared, and '<image>' written over the None texts of the
\* images kept when the assertion of line 258 passed
AfterAssembly(obj, limit) ==
    IF ~ParseSampleOk(obj.rec) THEN obj
    ELSE LET out == LoadLoop(obj.rec, limit, 1, GetValidImage(obj), <<>>, 0)
         IN [rec |-> obj.rec,
             valid_image |-> IF obj.valid_image = {} THEN {}
                             ELSE {out.valid},
             texts |-> IF ImagesAssertOk(out.loaded, out.valid)
                       THEN [i \in 1 .. Len(obj.rec) |->
                               IF obj.texts[i] = <<Tok("None")>>
                               THEN MarkTexts(obj.rec, out.valid, 1, 0)[i]
                               ELSE obj.texts[i]]
                       ELSE obj.texts]

NotServed == [rec |-> <<>>, valid_image |-> {}, texts |-> <<"never">>]

\* The records of a hot shard: two of them, MaxSlots slots between them
HotShards ==
    UNION {[1 .. n -> SlotKinds] \X [1 .. m -> SlotKinds] :
             <<n, m>> \in {nm \in (0 .. MaxSlots) \X (0 .. MaxSlots) :
                              nm[1] + nm[2] <= MaxSlots}}

ServeInitWith(recs, keyed, limit) ==
    /\ heap = [p \in 1 .. Len(recs) |-> NewObject(recs[p], keyed)]
    /\ shard_content = [p \in 1 .. Len(recs) |-> NewObject(recs[p], keyed)]
    /\ held = 0
    /\ held_index = 0
    /\ first_served = [p \in 1 .. Len(recs) |-> NotServed]
    /\ served_again = FALSE
    /\ serve_limit = limit
    /\ serve_pc = "idle"

\* A record can mark an image off only through the key
StoredAs(recs, keyed) ==
    keyed \/ \A p \in 1 .. Len(recs) : \A i \in 1 .. Len(recs[p]) :
                 recs[p][i] # "off"

\* The records of a shard file are all stored with the key or all without
ServeInit ==
    \E recs \in HotShards, keyed \in BOOLEAN, limit \in 1 .. MaxNumImages :
        /\ StoredAs(recs, keyed)
        /\ ServeInitWith(recs, keyed, limit)

ServeParked == ServeInitWith(<<>>, TRUE, 1)

\* load_data(index) for an index of the hot shard, line 172
ServeLoadData ==
    \E p \in 1 .. Len(shard_content) :
        /\ serve_pc = "idle"
        /\ LET out == DeepCopy(heap, p)
           IN /\ heap' = out.heap
              /\ held' = out.ref
              /\ first_served' =
                     IF first_served[p] = NotServed
                     THEN [first_served EXCEPT ![p] = out.heap[out.ref]]
                     ELSE first_served
        /\ served_again' = (first_served[p] # NotServed)
        /\ held_index' = p
        /\ serve_pc' = "assemble"
        /\ UNCHANGED <<shard_content, serve_limit>>
        /\ UNCHANGED <<dsVars, rankVars, tileVars, lazyVars, loadVars,
                       asmVars, evalVars, skipVars>>

\* The rest of getitem on the object handed out; when it ends nothing
\* refers to a copy any more
ServeAssemble ==
    /\ serve_pc = "assemble"
    /\ heap' = SubSeq([heap EXCEPT ![held] = AfterAssembly(@, serve_limit)],
                      1, Len(shard_content))
    /\ held' = 0
    /\ serve_pc' = "idle"
    /\ UNCHANGED <<shard_content, held_index, first_served, served_again,
                   serve_limit>>
    /\ UNCHANGED <<dsVars, rankVars, tileVars, lazyVars, loadVars, asmVars,
                   evalVars, skipVars>>

ServeNext == ServeLoadData \/ ServeAssemble

(***************************************************************************)
(* evaluate_chat_model (evaluate_grounding.py, 108-197) run by every rank  *)
(* of a job.  The output for sample i of the d-th dataset is <<d, i>>.     *)
(* barrier() and all_gather_object() are collective: a rank leaves one     *)
(* only when every rank has entered it.                                    *)
(***************************************************************************)
MaxEvalRanks == 3

MaxEvalSize == 3

NumDatasets == 2

EvalRanks == 0 .. (ev_world - 1)

\* How far along the loop body a rank is
StageNo(stage) ==
    CASE stage = "pass" -> 0
      [] stage = "barrier" -> 1
      [] stage = "gather" -> 2
      [] stage = "score" -> 3
      [] stage = "end_barrier" -> 4
      [] OTHER -> 5

\* Rank q has reached stage (of dataset d) or is beyond it
HasReached(q, d, stage) ==
    ev_ds[q] > d \/ (ev_ds[q] = d /\ StageNo(ev_pc[q]) >= StageNo(stage))

\* A collective that lets a rank go without waiting for the others
CollectiveOpenAlways(d, stage) == TRUE

\* Every rank has entered the collective call made at stage of dataset d
CollectiveOpen(d, stage) == \A q \in EvalRanks : HasReached(q, d, stage)

\* The indices of the rank's sampler, in order
LocalIndices(d, r) ==
    LET range == get_local_indices(ev_sizes[d], ev_world, r)
    IN  [p \in 1 .. (range[2] - range[1]) |-> range[1] + p - 1]

RECURSIVE Chain(_, _)
\* itertools.chain.from_iterable over the lists of ranks r, r + 1, ...
Chain(lists, r) ==
    IF r \notin DOMAIN lists THEN <<>> ELSE lists[r] \o Chain(lists, r + 1)

\* line 162
Merged(lists) == Chain(lists, 0)

EvalInitWith(world, sizes) ==
    /\ ev_world = world
    /\ ev_sizes = sizes
    /\ ev_ds = [r \in 0 .. (world - 1) |-> 1]
    /\ ev_pc = [r \in 0 .. (world - 1) |-> "pass"]
    /\ ev_pos = [r \in 0 .. (world - 1) |-> 0]
    /\ outputs = [r \in 0 .. (world - 1) |-> <<>>]
    /\ gathered = [r \in 0 .. (world - 1) |-> <<>>]
    /\ merged_outputs = [r \in 0 .. (world - 1) |-> <<>>]
    /\ summaries = <<>>

EvalInit ==
    \E world \in 1 .. MaxEvalRanks,
       sizes \in [1 .. NumDatasets -> 1 .. MaxEvalSize] :
        EvalInitWith(world, sizes)

EvalParked == EvalInitWith(1, [d \in 1 .. NumDatasets |-> 1])

\* One iteration of the loop over the dataloader, lines 131-154
EvalStep(r) ==
    /\ ev_pc[r] = "pass"
    /\ ev_pos[r] < Len(LocalIndices(ev_ds[r], r))
    /\ outputs' = [outputs EXCEPT
                    ![r] = Append(@, <<ev_ds[r], LocalIndices(ev_ds[r], r)[ev_pos[r] + 1]>>)]
    /\ ev_pos' = [ev_pos EXCEPT ![r] = @ + 1]
    /\ UNCHANGED <<ev_world, ev_sizes, ev_ds, ev_pc, gathered, merged_outputs,
                   summaries>>

\* The pass is over and the rank enters the barrier of line 156
EvalEnterBarrier(r) ==
    /\ ev_pc[r] = "pass"
    /\ ev_pos[r] = Len(LocalIndices(ev_ds[r], r))
    /\ ev_pc' = [ev_pc EXCEPT ![r] = "barrier"]
    /\ UNCHANGED <<ev_world, ev_sizes, ev_ds, ev_pos, outputs, gathered,
                   merged_outputs, summaries>>

\* [None for _ in range(world_size)], line 159: None written as <<>>
NoneList(world) == [q \in 1 .. world |-> <<>>]

\* The rank leaves the barrier, makes the list all_gather_object is to
\* fill and hands its outputs to all_gather_object, lines 158-160.  What the
\* ranks handed over is kept in gathered.
EvalEnterGather(r) ==
    /\ ev_pc[r] = "barrier"
    /\ CollectiveOpen(ev_ds[r], "barrier")
    /\ merged_outputs' = [merged_outputs EXCEPT ![r] = NoneList(ev_world)]
    /\ gathered' = [gathered EXCEPT ![r] = outputs[r]]
    /\ ev_pc' = [ev_pc EXCEPT ![r] = "gather"]
    /\ UNCHANGED <<ev_world, ev_sizes, ev_ds, ev_pos, outputs, summaries>>

\* all_gather_object returns and the lists are chained, lines 160-164
EvalMerge(r) ==
    /\ ev_pc[r] = "gather"
    /\ CollectiveOpen(ev_ds[r], "gather")
    /\ merged_outputs' = [merged_outputs EXCEPT ![r] = Merged(gathered)]
    /\ ev_pc' = [ev_pc EXCEPT ![r] = IF r = 0 THEN "score" ELSE "end_barrier"]
    /\ UNCHANGED <<ev_world, ev_sizes, ev_ds, ev_pos, outputs, gathered,
                   summaries>>

\* Rank 0 scores the merged list, lines 164-195
EvalScore ==
    /\ ev_pc[0] = "score"
    /\ summaries' = Append(summaries, merged_outputs[0])
    /\ ev_pc' = [ev_pc EXCEPT ![0] = "end_barrier"]
    /\ UNCHANGED <<ev_world, ev_sizes, ev_ds, ev_pos, outputs, gathered,
                   merged_outputs>>

\* The rank leaves the barrier of line 197 and goes on to the next dataset
EvalNextDataset(r) ==
    /\ ev_pc[r] = "end_barrier"
    /\ CollectiveOpen(ev_ds[r], "end_barrier")
    /\ IF ev_ds[r] < NumDatasets
       THEN /\ ev_ds' = [ev_ds EXCEPT ![r] = @ + 1]
            /\ ev_pc' = [ev_pc EXCEPT ![r] = "pass"]
       ELSE /\ ev_ds' = ev_ds
            /\ ev_pc' = [ev_pc EXCEPT ![r] = "done"]
    /\ ev_pos' = [ev_pos EXCEPT ![r] = 0]
    /\ outputs' = [outputs EXCEPT ![r] = <<>>]
    /\ UNCHANGED <<ev_world, ev_sizes, gathered, merged_outputs, summaries>>

EvalPass ==
    /\ \E r \in EvalRanks : EvalStep(r)
    /\ UNCHANGED <<dsVars, rankVars, tileVars, lazyVars, loadVars, asmVars,
                 serveVars, skipVars>>

EvalBarrier ==
    /\ \E r \in EvalRanks : EvalEnterBarrier(r)
    /\ UNCHANGED <<dsVars, rankVars, tileVars, lazyVars, loadVars, asmVars,
                 serveVars, skipVars>>

EvalGather ==
    /\ \E r \in EvalRanks : EvalEnterGather(r)
    /\ UNCHANGED <<dsVars, rankVars, tileVars, lazyVars, loadVars, asmVars,
                 serveVars, skipVars>>

EvalMerged ==
    /\ \E r \in EvalRanks : EvalMerge(r)
    /\ UNCHANGED <<dsVars, rankVars, tileVars, lazyVars, loadVars, asmVars,
                 serveVars, skipVars>>

EvalScored ==
    /\ EvalScore
    /\ UNCHANGED <<dsVars, rankVars, tileVars, lazyVars, loadVars, asmVars,
                 serveVars, skipVars>>

EvalEndBarrier ==
    /\ \E r \in EvalRanks : EvalNextDataset(r)
    /\ UNCHANGED <<dsVars, rankVars, tileVars, lazyVars, loadVars, asmVars,
                 serveVars, skipVars>>

EvalNext ==
    \/ EvalPass
    \/ EvalBarrier
    \/ EvalGather
    \/ EvalMerged
    \/ EvalScored
    \/ EvalEndBarrier

(***************************************************************************)
(* Specifications.  Each component is checked on its own; the variables of *)
(* the others are held at one fixed initial value.                         *)
(***************************************************************************)
DatasetParked(resampled) == DatasetInitWith(resampled, {}, 0)

RanksParked ==
    /\ world_size = 1
    /\ total_size = 1
    /\ local_indices = [r \in {0} |-> <<>>]
    /\ owned = [r \in {0} |-> <<>>]
    /\ lazy_built = [r \in {0} |-> NotBuilt]

TileParked ==
    /\ tile_pc = "input"
    /\ image_size = 1
    /\ orig_width = 1
    /\ orig_height = 1
    /\ min_num = DefaultMinNum
    /\ max_num = DefaultMinNum
    /\ ratio_order = <<<<1, 1>>>>
    /\ primary_ratio = <<>>
    /\ best_ratio = <<>>
    /\ use_thumbnail = FALSE
    /\ processed_images = <<>>
    /\ image_flags = <<>>

LazyParked ==
    /\ raw_data = <<"good">>
    /\ lazy_pc = "idle"
    /\ lazy_i = 0
    /\ lazy_ret = 0

SkipParked == assembling = {}

ExtParked ==
    LoadParked /\ AsmParked /\ EvalParked /\ ServeParked /\ SkipParked

Init == DatasetInit /\ RanksParked /\ TileParked /\ LazyParked /\ ExtParked

\* The object used through load_data
Next == LoadDataCall \/ LoadDataFileError

Spec == Init /\ [][Next]_vars

\* The object used through __getitem__, as a data loader uses it
GetItemNext ==
    \/ GetItemCall
    \/ GetItemAssembled
    \/ GetItemAssemblyError
    \/ GetItemFileError
    \/ GetItemDone

SpecGetItem == Init /\ [][GetItemNext]_vars

\* The records of the shard files
AllRecords == UNION {{shard_files[k][l] : l \in 1 .. Len(shard_files[k])} : k \in Shards}

\* The records of the corpus of which at most one assembles
SkipInit ==
    \E good \in {{}} \cup {{<<k, l>>} : k \in Shards,
                                        l \in 1 .. (NumSamplesEachShard + MaxExtra)} :
        /\ assembling = good
        /\ good \subseteq AllRecords

InitSkip ==
    /\ DatasetInit /\ RanksParked /\ TileParked /\ LazyParked
    /\ LoadParked /\ AsmParked /\ EvalParked /\ ServeParked /\ SkipInit

SkipNext == GetItemCall \/ GetItemStep \/ GetItemDone

\* The loop of __getitem__ keeps running: an iteration that can be made is
\* made
SpecSkip == InitSkip /\ [][SkipNext]_vars /\ WF_vars(GetItemStep)

\* The ranks of a distributed job building their samplers and datasets
InitRanks ==
    /\ \E resampled \in BOOLEAN : DatasetParked(resampled)
    /\ RanksInit /\ TileParked /\ LazyParked /\ ExtParked

SpecRanks == InitRanks /\ [][RanksNext]_vars

\* The ranks of a training job, each building its LazySupervisedDataset
SpecSlices == InitRanks /\ [][SlicesNext]_vars

InitTile ==
    DatasetParked(TRUE) /\ RanksParked /\ TileInit /\ LazyParked /\ ExtParked

SpecTile == InitTile /\ [][TileNext]_vars

\* One text-only record of a LazySupervisedDataset
InitPureText ==
    DatasetParked(TRUE) /\ RanksParked /\ PureTextInit /\ LazyParked /\ ExtParked

SpecPureText == InitPureText /\ [][PureTextNext]_vars

InitLazy ==
    DatasetParked(TRUE) /\ RanksParked /\ TileParked /\ LazyInit /\ ExtParked

SpecLazy == InitLazy /\ [][LazyNext]_vars

\* One call of load_json or load_jsonl
InitLoad ==
    /\ DatasetParked(TRUE) /\ RanksParked /\ TileParked /\ LazyParked
    /\ LoadInit /\ AsmParked /\ EvalParked /\ ServeParked /\ SkipParked

SpecLoad == InitLoad /\ [][LoadNext]_vars

\* One call of getitem on a record load_data returned
InitAsm ==
    /\ DatasetParked(TRUE) /\ RanksParked /\ TileParked /\ LazyParked
    /\ LoadParked /\ AsmInit /\ EvalParked /\ ServeParked /\ SkipParked

SpecAsm == InitAsm /\ [][AsmNext]_vars

\* The ranks of an evaluation job
InitEval ==
    /\ DatasetParked(TRUE) /\ RanksParked /\ TileParked /\ LazyParked
    /\ LoadParked /\ AsmParked /\ EvalInit /\ ServeParked /\ SkipParked

SpecEval == InitEval /\ [][EvalNext]_vars

\* Requests for records of the hot shard, each followed by its assembly
InitServe ==
    /\ DatasetParked(TRUE) /\ RanksParked /\ TileParked /\ LazyParked
    /\ LoadParked /\ AsmParked /\ EvalParked /\ ServeInit /\ SkipParked

SpecServe == InitServe /\ [][ServeNext]_vars

(***************************************************************************)
(* Properties of load_data                                                 *)
(***************************************************************************)
Elements(q) == {q[p] : p \in 1 .. Len(q)}

\* The position (from 0) of a shard in shard_order
PositionOf(name) == (CHOOSE p \in 1 .. Len(shard_order) : shard_order[p] = name) - 1

LastReduced == ReduceIndex(last.index)

\* The last call was load_data and no file read failed in it
LoadReturned == last.op = "load_data" /\ last.file_ok

\* C3: for every index i in [0, total_length) outside the hot shard,
\* load_data(i) installs the shard at position i div shard_capacity as the
\* hot shard and returns the record at offset i mod shard_capacity of it,
\* also when i is the last index of its shard.
C3_MissInstallsShard ==
    (/\ LoadReturned
     /\ last.index < Length
     /\ last.index \div NumSamplesEachShard # PositionOf(last.pre_name))
    => /\ current_shard_name = shard_order[last.index \div NumSamplesEachShard + 1]
       /\ last.ret = ItemAt(current_shard_data, last.index % NumSamplesEachShard)
       /\ last.ret.kind = "record"

\* C4: when the linear scan finds no shard containing the reduced index,
\* load_data ends in an error: it does not return normally without a record.
C4_ScanMissRaises ==
    (/\ last.op = "load_data"
     /\ ~InHotShard(shard_id_range[last.pre_name], LastReduced)
     /\ ScanFrom(LastReduced, 1) = 0)
    => last.ret.kind = "raise"

ExactShards == \A k \in Shards : Len(shard_files[k]) = NumSamplesEachShard

\* C5: with shards of exactly shard_capacity records, requesting 0, 1, ...,
\* total_length - 1 in order returns every record exactly once and replaces
\* the hot shard exactly NumShards - 1 times, each time at a multiple of
\* shard_capacity.
C5_SequentialPass ==
    (seq_next = Length /\ ExactShards)
    => /\ \A p \in 1 .. Length : seq_served[p].kind = "record"
       /\ {seq_served[p].rec : p \in 1 .. Length} = AllRecords
       /\ Cardinality(AllRecords) = Length
       /\ Len(seq_swaps) = NumShards - 1
       /\ \A p \in 1 .. Len(seq_swaps) : seq_swaps[p] = p * NumSamplesEachShard

C5_Witness ==
    /\ seq_next = Length
    /\ ExactShards
    /\ Len(seq_swaps) = NumShards - 1
    /\ NumShards > 1

\* C6: load_data(i) and load_data(i + total_length) return equal records:
\* called in the same state they have the same outcome, and called one after
\* the other the second returns the record the first returned.
C6_Wraparound ==
    \A i \in 0 .. (2 * Length - 1) : \A ok \in BOOLEAN :
        LET a == LoadDataOut(i, ok)
        IN /\ LoadDataOut(i + Length, ok) = a
           /\ a.ret.kind = "record"
              => LoadDataFn(a.name, a.data, a.rng, i + Length, TRUE).ret = a.ret

C6_Witness ==
    /\ LoadReturned
    /\ last.index >= Length
    /\ last.swapped
    /\ last.ret.kind = "record"

\* C21: the record served for an index is the same on every request of it
\* within a run, also after its shard was evicted and loaded again: a
\* sequential pass that runs on into the next epoch is served, at
\* Length + i, the record it was served at i.
C21_SameRecordEveryRequest ==
    \A p \in 1 .. Len(seq_served) :
        p > Length => seq_served[p] = seq_served[p - Length]

\* C26: current_shard_data always holds the records of the shard named by
\* current_shard_name, also after a load_data call in which the shard file
\* could not be read.
C26_HotShardConsistent ==
    Elements(current_shard_data) = Elements(shard_files[current_shard_name])

(***************************************************************************)
(* Properties of __getitem__                                               *)
(***************************************************************************)
\* C7: InterleavedDataset.__getitem__ never raises; what it returns is the
\* bundle of the index at which assembly succeeded.
C7_GetItemNeverRaises ==
    /\ pc # "raised"
    /\ pc = "returned" => item.kind = "record"

(***************************************************************************)
(* Properties of the ranks of a job                                        *)
(***************************************************************************)
SamplerDone(r) == local_indices[r] # <<>>

DatasetBuilt(r) == owned[r] # <<>>


\* C1: the ranges of _get_local_indices for the ranks of a job are pairwise
\* disjoint, their sizes differ by at most 1, and together they are exactly
\* [0, total_size), also when world_size > total_size.
C1_ContiguousPartition ==
    /\ \A r1 \in Ranks : \A r2 \in Ranks :
          (r1 # r2 /\ SamplerDone(r1) /\ SamplerDone(r2))
          => /\ RangeSet(local_indices[r1]) \cap RangeSet(local_indices[r2]) = {}
             /\ Cardinality(RangeSet(local_indices[r1]))
                - Cardinality(RangeSet(local_indices[r2])) \in {-1, 0, 1}
    /\ (\A r \in Ranks : SamplerDone(r))
       => UNION {RangeSet(local_indices[r]) : r \in Ranks} = 0 .. (total_size - 1)

C1_Witness ==
    /\ \A r \in Ranks : SamplerDone(r)
    /\ world_size > total_size
    /\ total_size > 1

\* The shards the contiguous-block partition gives a rank
BlockOf(r) ==
    {AllShards[p + 1] : p \in RangeSet(get_local_indices(NumShards, world_size, r))}

\* C2: the shards a rank owns are the slice the contiguous-block partition
\* gives it, so no shard is owned by two ranks.
C2_DisjointOwnership ==
    /\ \A r \in Ranks : DatasetBuilt(r) => Elements(owned[r]) = BlockOf(r)
    /\ \A r1 \in Ranks : \A r2 \in Ranks :
          (r1 # r2 /\ DatasetBuilt(r1) /\ DatasetBuilt(r2))
          => Elements(owned[r1]) \cap Elements(owned[r2]) = {}

(***************************************************************************)
(* Properties of LazySupervisedDataset                                     *)
(***************************************************************************)
\* C8: LazySupervisedDataset.__getitem__ never raises when a record is
\* corrupt (an unparseable line, an image that cannot be loaded).
C8_LazyNeverRaises == lazy_pc # "raised"

\* C9: the grid finally chosen has between min_tiles and max_tiles tiles,
\* for every budget min_tiles <= max_tiles, also after the overrides.
C9_GridWithinBudget ==
    tile_pc = "done"
    => /\ min_num <= best_ratio[1] * best_ratio[2]
       /\ best_ratio[1] * best_ratio[2] <= max_num

DefaultBudget == min_num = DefaultMinNum /\ max_num = DefaultMaxNum

\* C10: for a square image and the default budget the grid is (1,1) when
\* width*height < tile_size^2 and (2,2) otherwise, whichever of the two the
\* search met first.
C10_SquareImage ==
    (tile_pc = "done" /\ DefaultBudget /\ orig_width = orig_height)
    => best_ratio = (IF orig_width * orig_height < image_size * image_size
                     THEN <<1, 1>> ELSE <<2, 2>>)

C10_Witness ==
    /\ tile_pc = "done"
    /\ DefaultBudget
    /\ orig_width = orig_height
    /\ primary_ratio = <<1, 1>>
    /\ best_ratio = <<2, 2>>

\* The tiles of each kind in the returned list
TilesOfKind(kind) ==
    {p \in 1 .. Len(processed_images) : processed_images[p].kind = kind}

Blocks == best_ratio[1] * best_ratio[2]

\* C11: dynamic_preprocess returns exactly cols*rows tiles cut from the
\* resized image, plus exactly one thumbnail, as the last tile, when
\* use_thumbnail is set and cols*rows > 1; with cols*rows = 1 there is no
\* thumbnail even if use_thumbnail is set.
C11_TileCount ==
    tile_pc = "done" =>
        /\ Cardinality(TilesOfKind("crop")) = Blocks
        /\ TilesOfKind("crop") = 1 .. Blocks
        /\ Cardinality(TilesOfKind("thumbnail")) =
               IF use_thumbnail /\ Blocks > 1 THEN 1 ELSE 0
        /\ Len(processed_images) =
               Blocks + (IF use_thumbnail /\ Blocks > 1 THEN 1 ELSE 0)

\* A one-tile grid with the thumbnail asked for
C11_Witness ==
    /\ tile_pc = "done"
    /\ use_thumbnail
    /\ Blocks = 1
    /\ Len(processed_images) = 1

SixTilePrimary == primary_ratio = <<2, 3>> \/ primary_ratio = <<3, 2>>

Area == orig_width * orig_height

\* C22 as stated: whenever the primary search selects (2,3) or (3,2) and
\* width*height < 4 * tile_size^2, the grid finally returned is (2,2).
C22_SixDowngradedToFour ==
    (tile_pc = "done" /\ SixTilePrimary /\ Area < 4 * image_size * image_size)
    => best_ratio = <<2, 2>>

\* C22, amended: whenever the primary search selects (2,3) or (3,2) and
\* width*height < 4 * tile_size^2, the grid finally returned is (2,2) when
\* width*height >= tile_size^2 and (1,1) when width*height < tile_size^2:
\* the downgraded grid goes through the re-decision by area.
C22_SixDowngradedThenRedecided ==
    (tile_pc = "done" /\ SixTilePrimary /\ Area < 4 * image_size * image_size)
    => best_ratio = (IF Area < image_size * image_size
                     THEN <<1, 1>> ELSE <<2, 2>>)

C22_Witness ==
    /\ tile_pc = "done"
    /\ SixTilePrimary
    /\ Area < 4 * image_size * image_size
    /\ Area >= image_size * image_size
    /\ best_ratio = <<2, 2>>

\* The grids (cols, rows) with min_tiles <= cols*rows <= max_tiles
GridsWithin(lo, hi) ==
    {r \in (1 .. hi) \X (1 .. hi) : lo <= r[1] * r[2] /\ r[1] * r[2] <= hi}

\* The score |width/height - cols/rows| of a grid, as the fraction
\* <<numerator, denominator>>
Score(r) == <<Abs(orig_width * r[2] - r[1] * orig_height), orig_height * r[2]>>

\* Whether grid a scores strictly better than grid b for the image
Closer(a, b) == Score(a)[1] * Score(b)[2] < Score(b)[1] * Score(a)[2]

PlaceIn(order, r) == CHOOSE p \in 1 .. Len(order) : order[p] = r

\* C23: the candidates are exactly the grids with min_tiles <= cols*rows <=
\* max_tiles, each enumerated once; the primary search selects a candidate
\* no other candidate scores strictly better than, and every candidate
\* enumerated before it scores strictly worse.
C23_ClosestFirstWins ==
    /\ Elements(ratio_order) = GridsWithin(min_num, max_num)
    /\ Len(ratio_order) = Cardinality(GridsWithin(min_num, max_num))
    /\ tile_pc = "done" =>
          /\ primary_ratio \in Elements(ratio_order)
          /\ \A r \in Elements(ratio_order) : ~Closer(r, primary_ratio)
          /\ \A p \in 1 .. (PlaceIn(ratio_order, primary_ratio) - 1) :
                 Closer(primary_ratio, ratio_order[p])

\* A tie between the selected grid and one enumerated after it
C23_Witness ==
    /\ tile_pc = "done"
    /\ \E p \in 1 .. Len(ratio_order) :
          /\ p > PlaceIn(ratio_order, primary_ratio)
          /\ ~Closer(primary_ratio, ratio_order[p])

\* The unit squares <<x, y>> of the box <<left, upper, right, lower>>
Pixels(box) == (box[1] .. (box[3] - 1)) \X (box[2] .. (box[4] - 1))

\* The square of side s at column c and row r
SquareAt(c, r, s) == <<c * s, r * s, (c + 1) * s, (r + 1) * s>>

\* C24: tile i of a (cols, rows) grid is the s-by-s square at column
\* i mod cols and row i div cols of the image resized to (cols*s, rows*s);
\* the squares do not overlap, lie inside the resized image and cover it.
C24_RowMajorTiling ==
    tile_pc = "done" =>
        LET cols == best_ratio[1]
            rows == best_ratio[2]
            s == image_size
            resized == <<0, 0, cols * s, rows * s>>
        IN /\ \A i \in 0 .. (cols * rows - 1) :
                 /\ processed_images[i + 1].kind = "crop"
                 /\ processed_images[i + 1].box = SquareAt(i % cols, i \div cols, s)
                 /\ Pixels(processed_images[i + 1].box) \subseteq Pixels(resized)
           /\ \A i, j \in 0 .. (cols * rows - 1) :
                 i # j => Pixels(processed_images[i + 1].box) \cap
                          Pixels(processed_images[j + 1].box) = {}
           /\ UNION {Pixels(processed_images[i + 1].box) :
                        i \in 0 .. (cols * rows - 1)} = Pixels(resized)

\* A grid with more than one row and with rows and columns that differ
C24_Witness ==
    /\ tile_pc = "done"
    /\ best_ratio[1] > 1
    /\ best_ratio[2] > 1
    /\ best_ratio[1] # best_ratio[2]
    /\ Len(processed_images) >= 6

(***************************************************************************)
(* Properties of load_json, load_json_line and load_jsonl                  *)
(***************************************************************************)
LoadEnded == load_pc \in {"returned", "raised"}

\* What a remote read may be seen doing in any state
RemoteReadState ==
    /\ fetch_calls <= 10
    /\ bytes = "fetched" => fetch_calls = try_times + 1
    /\ bytes # "fetched" => fetch_calls = try_times
    /\ load_pc \in {"lines", "returned"} =>
           /\ bytes = "fetched"
           /\ load_fn = "load_jsonl" => lines = file_lines
           /\ (load_fn = "load_json" /\ load_pc = "returned") =>
                  load_ret = Returned(JsonValue(Flatten(file_lines)))
    /\ (load_pc \in {"read", "returned", "raised"} /\ bytes # "fetched") =>
           /\ fetch_calls = 10
           /\ load_pc # "returned"

\* C12: a remote read makes at most 10 fetch attempts, makes no further
\* attempt after the first successful one and reads the bytes that attempt
\* returned; when all 10 attempts fail the call raises and returns no data.
C12_RemoteRead ==
    /\ [](remote => RemoteReadState)
    /\ [][(remote /\ bytes = "fetched") => fetch_calls' = fetch_calls]_vars

\* All ten attempts failed and the call has ended
C12_Witness ==
    /\ remote
    /\ load_pc = "raised"
    /\ bytes # "fetched"
    /\ fetch_calls = 10

\* s with its last n characters removed
DropLast(s, n) == IF n >= Len(s) THEN <<>> ELSE SubSeq(s, 1, Len(s) - n)

\* The attempts (from 1) of the first 20 at which the line, with the last
\* k - 1 characters removed, is a JSON text
ParsingAttempts(line) == {k \in 1 .. 20 : JsonParses(DropLast(line, k - 1))}

FirstOf(S) == CHOOSE k \in S : \A j \in S : k <= j

\* C13: load_json_line makes at most 20 parse attempts, attempt k parsing
\* the line without its last k - 1 characters, and returns the first
\* successful parse; so a JSON value followed by at most 19 stray characters
\* is returned.
C13_TrimAndParse ==
    last_line.kind # "none" =>
        LET ok == ParsingAttempts(last_line.line)
        IN  /\ last_line.attempts <= 20
            /\ IF ok # {}
               THEN /\ last_line.kind = "value"
                    /\ last_line.attempts = FirstOf(ok)
                    /\ last_line.value =
                           JsonValue(DropLast(last_line.line, FirstOf(ok) - 1))
               ELSE /\ last_line.kind = "raise"
                    /\ last_line.attempts = 20

\* load_jsonl raised because load_json_line did
RaisedByLine ==
    load_fn = "load_jsonl" /\ load_pc = "raised" /\ last_line.kind = "raise"

\* C14: when a line is still unparseable after the 20 trimming attempts,
\* load_jsonl raises an error whose text is the line as read from the file,
\* not what the trimming left of it.
C14_ErrorCarriesRawLine ==
    (RaisedByLine /\ ~last_line.parsed) =>
        /\ last_line.attempts = 20
        /\ load_ret.kind = "raise"
        /\ load_ret.text = file_lines[line_no]
        /\ load_ret.text # last_line.text
        /\ load_ret.cause = DropLast(file_lines[line_no], 20)

\* A line with a value in it, lost to 20 trailing characters
C14_Witness ==
    /\ RaisedByLine
    /\ ~last_line.parsed
    /\ last_line.text # <<>>
    /\ JsonParses(last_line.text)

\* The lines of the file whose stripped length exceeds 2
KeptLines == SelectSeq(file_lines, LAMBDA l : Len(Strip(l)) > 2)

\* v is what some attempt among the first 20 parses from the line
RecordOf(line, v) ==
    \E k \in ParsingAttempts(line) : v = JsonValue(DropLast(line, k - 1))

\* C15: load_jsonl returns no partial data: the list it returns holds one
\* record for every line of the file whose stripped length exceeds 2, in
\* file order; a line that cannot be parsed makes it raise.
C15_NoPartialData ==
    (load_fn = "load_jsonl" /\ load_pc = "returned") =>
        /\ load_ret.kind = "return"
        /\ Len(load_ret.text) = Len(KeptLines)
        /\ \A p \in 1 .. Len(KeptLines) : RecordOf(KeptLines[p], load_ret.text[p])

\* A file of a line that is too short to be kept and a line with a stray
\* character, returned as one record
C15_Witness ==
    /\ load_fn = "load_jsonl"
    /\ load_pc = "returned"
    /\ Len(file_lines) = 2
    /\ Len(KeptLines) = 1
    /\ ~JsonParses(KeptLines[1])
    /\ load_ret.text = <<<<"[", "1", "]">>>>

(***************************************************************************)
(* Properties of getitem                                                   *)
(***************************************************************************)
\* parse_sample accepted the record and the image loop has run
LoopDone == asm_pc \notin {"parse", "images"} /\ ParseSampleOk(sample)

\* line 270 has run
TextBuilt ==
    \/ asm_pc \in {"tokenize", "labels", "returned"}
    \/ asm_pc = "raised" /\ asm_err \in {"NameError", "image tokens are truncated"}

\* the tokenizer has run
Tokenized ==
    \/ asm_pc \in {"labels", "returned"}
    \/ asm_pc = "raised" /\ asm_err = "image tokens are truncated"

StartsWith(t, prefix) ==
    Len(t) >= Len(prefix) /\ SubSeq(t, 1, Len(prefix)) = prefix

RECURSIVE Outline(_, _)
\* A text read item by item: every placeholder block (start marker, budget
\* context markers, end marker) as one item, the separators left out
Outline(t, budget) ==
    IF t = <<>> THEN <<>>
    ELSE IF StartsWith(t, ImageTokens(budget))
    THEN <<Tok("block")>> \o Outline(SubSeq(t, budget + 3, Len(t)), budget)
    ELSE IF Head(t) = Tok("\n\n") THEN Outline(Tail(t), budget)
    ELSE <<Head(t)>> \o Outline(Tail(t), budget)

RECURSIVE SlotOutline(_)
\* What the slots from i on are to contribute, in slot order: a block for a
\* null text slot whose image is included, the text of a text slot, nothing
\* for a null text slot whose image is not valid
SlotOutline(i) ==
    IF i > Len(sample) THEN <<>>
    ELSE (IF TextIsNone(sample[i])
          THEN IF i \in Elements(loaded_images) THEN <<Tok("block")>> ELSE <<>>
          ELSE TextOf(sample[i], i))
         \o SlotOutline(i + 1)

\* C16: each null text slot whose image is valid and included becomes
\* exactly one placeholder block (start marker, num_image_token context
\* markers, end marker) at that slot's position, a null text slot whose
\* image is invalid contributes nothing, and so the text holds exactly as
\* many blocks as there are included images.
C16_OneBlockPerIncludedImage ==
    TextBuilt =>
        /\ Outline(text, num_image_token) = SlotOutline(1)
        /\ Cardinality({p \in 1 .. Len(Outline(text, num_image_token)) :
                           Outline(text, num_image_token)[p] = Tok("block")})
              = Len(loaded_images)

MarkerIds == {image_start_token_id, image_context_token_id, image_end_token_id}

\* C17: in the returned bundle labels[p] is -100 at exactly the positions
\* where input_ids[p] is a start, context or end marker, and equals
\* input_ids[p] everywhere else.
C17_LabelsMaskMarkers ==
    asm_pc = "returned" =>
        /\ Len(labels) = Len(input_ids)
        /\ \A p \in 1 .. Len(input_ids) :
               /\ (labels[p] = -100) = (input_ids[p] \in MarkerIds)
               /\ input_ids[p] \notin MarkerIds => labels[p] = input_ids[p]

\* A bundle with a word and a whole block in it
C17_Witness ==
    /\ asm_pc = "returned"
    /\ \E p \in 1 .. Len(input_ids) : input_ids[p] = image_end_token_id
    /\ \E p \in 1 .. Len(input_ids) : input_ids[p] \notin MarkerIds

ContextCount == CountOf(input_ids, image_context_token_id)

\* C18: a bundle is returned only if the context markers left after
\* truncation number num_image_token times the included images; otherwise
\* the call raises and builds no labels.
C18_NoTruncatedImageTokens ==
    /\ asm_pc = "returned" =>
           ContextCount = num_image_token * Len(loaded_images)
    /\ (Tokenized /\ asm_pc # "labels"
           /\ ContextCount # num_image_token * Len(loaded_images)) =>
           /\ asm_pc = "raised"
           /\ asm_err = "image tokens are truncated"
           /\ labels = <<>>

\* Truncation cut into a block and the call raised
C18_Witness ==
    /\ asm_pc = "raised"
    /\ asm_err = "image tokens are truncated"
    /\ Len(input_ids) = model_max_length
    /\ ContextCount < num_image_token * Len(loaded_images)

\* The images that are valid and load, in record order
LoadableSlots == SelectSeq(ImageSlots(sample), LAMBDA i : sample[i] = "image")

IncludedSlots ==
    SubSeq(LoadableSlots, 1, Min(max_num_images, Len(LoadableSlots)))

\* C19: after the image loop the included images are the first
\* max_num_images valid images that load, in record order; every other
\* image has its validity flag false, so the true flags number the included
\* images, at most max_num_images; and with an image included the call has
\* not failed for an image that did not load.
C19_IncludedImages ==
    LoopDone =>
        /\ loaded_images = IncludedSlots
        /\ Len(valid_image) = Len(ImageSlots(sample))
        /\ \A j \in 1 .. Len(valid_image) :
               valid_image[j] = (ImageSlots(sample)[j] \in Elements(loaded_images))
        /\ CountTrue(valid_image) = Len(loaded_images)
        /\ Len(loaded_images) <= max_num_images
        /\ Len(loaded_images) > 0 =>
               ~(asm_pc = "raised" /\ asm_err = "AssertionError")

\* An image that does not load, then the images up to the limit, then one
\* more that would load
C19_Witness ==
    /\ asm_pc = "returned"
    /\ \E i \in 1 .. Len(sample) : sample[i] = "broken"
    /\ Len(loaded_images) = max_num_images
    /\ Len(LoadableSlots) > max_num_images

(***************************************************************************)
(* Properties of the evaluation job                                        *)
(***************************************************************************)
\* One entry for every sample of dataset d, by ascending index
FullList(d) == [p \in 1 .. ev_sizes[d] |-> <<d, p - 1>>]

\* C20: once the barrier and the all-gather that follow a dataset pass are
\* over, the merged list of every rank holds exactly one entry for each
\* sample of the dataset, by ascending index; rank 0 scores that list only
\* after every rank has contributed to it; and no rank starts the next
\* dataset before rank 0 has scored this one.
C20_MergedAfterBarrier ==
    /\ \A r \in EvalRanks :
           ev_pc[r] \in {"score", "end_barrier"} =>
               merged_outputs[r] = FullList(ev_ds[r])
    /\ ev_pc[0] = "score" =>
           \A q \in EvalRanks :
               /\ HasReached(q, ev_ds[0], "gather")
               /\ ev_ds[q] = ev_ds[0]
               /\ ev_pos[q] = Len(LocalIndices(ev_ds[0], q))
    /\ \A d \in 1 .. Len(summaries) : summaries[d] = FullList(d)
    /\ \A r \in EvalRanks :
           /\ Len(summaries) >= ev_ds[r] - 1
           /\ ev_pc[r] = "done" => Len(summaries) = NumDatasets

\* More ranks than samples in the first dataset, which rank 0 has scored,
\* and a rank at work on the second while another has yet to leave the
\* first
C20_Witness ==
    /\ ev_world > ev_sizes[1]
    /\ Len(summaries) = 1
    /\ \E r, q \in EvalRanks :
           /\ ev_ds[r] = 2 /\ ev_pos[r] > 0
           /\ ev_ds[q] = 1 /\ ev_pc[q] = "end_barrier"


(***************************************************************************)
(* Properties of the served record objects                                 *)
(***************************************************************************)
\* The hot shard as it is now
CachedRecords == SubSeq(heap, 1, Len(shard_content))

\* C25: serving a record never changes the cached hot shard: whatever
\* assembly writes to the record it was handed, current_shard_data holds
\* the records as they were loaded, and every request of an index of the
\* hot shard returns a record equal to the one its first request returned.
C25_ServingKeepsCache ==
    /\ CachedRecords = shard_content
    /\ serve_pc = "assemble" => heap[held] = first_served[held_index]

\* A second request of an index whose first request had a flag cleared and
\* a text slot filled in by assembly
C25_Witness ==
    /\ serve_pc = "assemble"
    /\ served_again
    /\ heap[held] = first_served[held_index]
    /\ LET after == AfterAssembly(first_served[held_index], serve_limit)
       IN /\ after.valid_image # first_served[held_index].valid_image
          /\ after.texts # first_served[held_index].texts
    /\ held = Len(shard_content) + 1

(***************************************************************************)
(* Properties of pure_text_get_item                                        *)
(***************************************************************************)
\* C27: for every configured image_size and either use_thumbnail setting,
\* pure_text_get_item does not fail its one-tile assertion: the blank image
\* is tiled as a 1x1 grid and the bundle has exactly one tile, with image
\* flag 0.
C27_PureTextOneTile ==
    /\ tile_pc # "raised"
    /\ tile_pc = "returned" =>
          /\ best_ratio = <<1, 1>>
          /\ Len(processed_images) = 1
          /\ image_flags = <<0>>

(***************************************************************************)
(* Properties of the line slices of LazySupervisedDataset                  *)
(***************************************************************************)
LinesOf(r) == Elements(lazy_built[r].raw_data)

AllLazyBuilt == \A r \in Ranks : lazy_built[r].built

\* C28: for a file of N lines and W ranks the slices of the ranks are
\* pairwise disjoint, each floor(N / W) lines long and contiguous in rank
\* order; exactly the last N mod W lines are in no rank's slice; and
\* len(dataset) is W * floor(N / W) on every rank.
C28_LineSlices ==
    LET per_rank == total_size \div world_size
    IN /\ \A r \in Ranks : lazy_built[r].built =>
             /\ Len(lazy_built[r].raw_data) = per_rank
             /\ \A p \in 1 .. per_rank :
                    lazy_built[r].raw_data[p] = r * per_rank + p - 1
             /\ lazy_built[r].len = world_size * per_rank
       /\ \A r, q \in Ranks :
             (r # q /\ lazy_built[r].built /\ lazy_built[q].built)
             => LinesOf(r) \cap LinesOf(q) = {}
       /\ AllLazyBuilt =>
             (0 .. (total_size - 1)) \ UNION {LinesOf(r) : r \in Ranks} =
                 (total_size - (total_size % world_size)) .. (total_size - 1)

\* Every rank has built its dataset, each holds lines, and lines are left
C28_Witness ==
    /\ AllLazyBuilt
    /\ world_size > 1
    /\ total_size \div world_size > 0
    /\ total_size % world_size > 0

(***************************************************************************)
(* Properties of the skip-forward of InterleavedDataset.__getitem__        *)
(***************************************************************************)
\* Some index of the corpus is served a record that assembles
SomeIndexAssembles ==
    \E i \in 0 .. (Length - 1) :
        /\ LoadDataOut(i, TRUE).ret.kind = "record"
        /\ LoadDataOut(i, TRUE).ret.rec \in assembling

\* C29: if at least one index of the corpus assembles, __getitem__(i)
\* eventually returns for every start index i; with no index that assembles
\* it never returns.
C29_SkipForwardReturns ==
    /\ (pc = "loop" /\ SomeIndexAssembles) ~> (pc = "returned")
    /\ [](assembling = {} => pc # "returned")
=========================================================================
